---- MODULE Spec2Model ----
(***************************************************************************)
(* Guild migration engine of the Discord -> Fluxer migration tool.         *)
(*                                                                         *)
(* The model follows src/migrators/server_migrator.py (ServerMigrator) and *)
(* the batch loop of src/main.py (MigrationOrchestrator.migrate_servers).  *)
(* Ids are naturals, 0 stands for Python's None / a missing key.  Numeric  *)
(* strings sent by the source platform (permission bitmasks) are digit     *)
(* sequences that int() parses.                                            *)
(***************************************************************************)
EXTENDS Integers, Sequences, FiniteSets, TLC

\* ------------------------------------------------------------------ bounds

\* Largest number of failing calls (API errors, failed downloads) in one batch.
MaxFailures == 2

\* --------------------------------------------------------- generic helpers

None == 0

\* int(x) on a decimal string, given as its sequence of digits.
RECURSIVE ParseInt(_)
ParseInt(digits) ==
    IF Len(digits) = 0 THEN 0
    ELSE 10 * ParseInt(SubSeq(digits, 1, Len(digits) - 1)) + digits[Len(digits)]

\* SortedByPosition with the list left in the order the API gave it.
SortedByPosition_Unsorted(s) == s

\* sorted(s, key=lambda r: r.get("position", 0)): ascending and stable, so the
\* element at index i comes after those of smaller position and after those
\* of the same position that stand before it in s.
SortedByPosition(s) ==
    LET before(i) == {j \in 1..Len(s) :
                        \/ s[j].position < s[i].position
                        \/ s[j].position = s[i].position /\ j < i}
    IN  [k \in 1..Len(s) |-> s[CHOOSE i \in 1..Len(s) : Cardinality(before(i)) = k - 1]]

\* SortedByPositionDesc with the list left in the order it was built.
SortedByPositionDesc_Unsorted(s) == s

\* sorted(role_positions, key=lambda x: x["position"], reverse=True):
\* descending, and equal keys keep their original order.
SortedByPositionDesc(s) ==
    LET before(i) == {j \in 1..Len(s) :
                        \/ s[j].position > s[i].position
                        \/ s[j].position = s[i].position /\ j < i}
    IN  [k \in 1..Len(s) |-> s[CHOOSE i \in 1..Len(s) : Cardinality(before(i)) = k - 1]]

\* dict.get(key): the value stored for key, None when there is none.
MapGet(m, k) == IF k \in DOMAIN m THEN m[k] ELSE None

\* MapPut with the table started afresh at every write.
MapPut_Forgets(m, k, v) == [x \in {k} |-> v]

\* dict[key] = value (last write wins).
MapPut(m, k, v) == [x \in (DOMAIN m) \cup {k} |-> IF x = k THEN v ELSE m[x]]

EmptyMap == [x \in {} |-> None]

\* {item["name"]: item for item in items}: for a name held by several items
\* the last one wins.  The id of the item stored under name, None if absent.
IdByName(items, name) ==
    LET hits == {i \in 1..Len(items) : items[i].name = name}
    IN  IF hits = {} THEN None
        ELSE items[CHOOSE i \in hits : \A j \in hits : j <= i].id

\* NameIn with a lookup that only looks at the first item.
NameIn_FirstOnly(items, name) == Len(items) > 0 /\ items[1].name = name

\* name in existing_by_name
NameIn(items, name) == \E i \in 1..Len(items) : items[i].name = name

\* ------------------------------------------------- source platform (Discord)

\* The guilds the user is in.  A guild's "@everyone" role carries the guild's id;
\* icon_animated says whether the icon hash starts with "a_".
DiscordGuilds == {1, 2, 3}

DiscordGuild(g) ==
    IF g = 1 THEN [id |-> 1, name |-> "Main", icon |-> "a_icon", icon_animated |-> TRUE]
    ELSE IF g = 2 THEN [id |-> 2, name |-> "Other", icon |-> "", icon_animated |-> FALSE]
    ELSE [id |-> 3, name |-> "Test", icon |-> "", icon_animated |-> FALSE]

\* GET /guilds/{id}/roles, in the order the API lists them.
DiscordRoles(g) ==
    IF g = 1 THEN
      << [id |-> 12, name |-> "Admin", position |-> 2, permissions |-> <<8>>,
          color |-> 255, hoist |-> TRUE, mentionable |-> FALSE],
         [id |-> 1, name |-> "@everyone", position |-> 0, permissions |-> <<1, 0, 2, 4>>,
          color |-> 0, hoist |-> FALSE, mentionable |-> FALSE],
         [id |-> 11, name |-> "Mod", position |-> 1, permissions |-> <<1, 0, 2, 4>>,
          color |-> 16, hoist |-> FALSE, mentionable |-> TRUE] >>
    ELSE IF g = 2 THEN
      << [id |-> 2, name |-> "@everyone", position |-> 0, permissions |-> <<0>>,
          color |-> 0, hoist |-> FALSE, mentionable |-> FALSE],
         [id |-> 13, name |-> "Admin", position |-> 1, permissions |-> <<8>>,
          color |-> 255, hoist |-> TRUE, mentionable |-> FALSE] >>
    ELSE
      << [id |-> 3, name |-> "@everyone", position |-> 0, permissions |-> <<0>>,
          color |-> 0, hoist |-> FALSE, mentionable |-> FALSE],
         [id |-> 14, name |-> "Admin", position |-> 1, permissions |-> <<8>>,
          color |-> 0, hoist |-> FALSE, mentionable |-> FALSE] >>

\* In a string-valued field of a fetched JSON object: the key is not there,
\* and the key holds null.
Missing == "<missing>"

Null == "<null>"

\* d.get(key): None for a key that is not there.
Get(v) == IF v = Missing THEN Null ELSE v

\* d.get(key, default)
GetOr(v, default) == IF v = Missing THEN default ELSE v

\* What an f-string puts in for a value: the text itself, "None" for None.
Format(v) == IF v = Null THEN "None" ELSE v

\* GET /guilds/{id}/channels.  Overwrite type 0 targets a role, 1 a member.
DiscordChannels(g) ==
    IF g = 1 THEN
      << [id |-> 23, name |-> "Voice", type |-> 2, parent_id |-> None, position |-> 1,
          topic |-> Missing, nsfw |-> FALSE, bitrate |-> 64000, user_limit |-> 5,
          permission_overwrites |-> <<>>],
         [id |-> 22, name |-> "chat", type |-> 0, parent_id |-> 21, position |-> 0,
          topic |-> "hello", nsfw |-> FALSE, bitrate |-> 0, user_limit |-> 0,
          permission_overwrites |->
            << [id |-> 12, type |-> 0, allow |-> <<1, 0, 2, 4>>, deny |-> <<0>>],
               [id |-> 91, type |-> 1, allow |-> <<8>>, deny |-> <<0>>],
               [id |-> 11, type |-> 0, allow |-> <<0>>, deny |-> <<6, 4>>] >>],
         [id |-> 21, name |-> "General", type |-> 4, parent_id |-> None, position |-> 0,
          topic |-> Missing, nsfw |-> FALSE, bitrate |-> 0, user_limit |-> 0,
          permission_overwrites |->
            << [id |-> 1, type |-> 0, allow |-> <<0>>, deny |-> <<2, 0, 4, 8>>] >>] >>
    ELSE IF g = 2 THEN
      << [id |-> 26, name |-> "help", type |-> 15, parent_id |-> 25, position |-> 0,
          topic |-> "ask", nsfw |-> FALSE, bitrate |-> 0, user_limit |-> 0,
          permission_overwrites |->
            << [id |-> 13, type |-> 0, allow |-> <<8>>, deny |-> <<1, 6>>] >>],
         [id |-> 25, name |-> "Archive", type |-> 4, parent_id |-> None, position |-> 1,
          topic |-> Missing, nsfw |-> FALSE, bitrate |-> 0, user_limit |-> 0,
          permission_overwrites |-> <<>>],
         [id |-> 24, name |-> "Lobby", type |-> 4, parent_id |-> None, position |-> 0,
          topic |-> Missing, nsfw |-> FALSE, bitrate |-> 0, user_limit |-> 0,
          permission_overwrites |-> <<>>],
         [id |-> 27, name |-> "stage", type |-> 13, parent_id |-> None, position |-> 2,
          topic |-> Missing, nsfw |-> FALSE, bitrate |-> 0, user_limit |-> 0,
          permission_overwrites |-> <<>>],
         [id |-> 28, name |-> "news", type |-> 5, parent_id |-> 24, position |-> 3,
          topic |-> Null, nsfw |-> FALSE, bitrate |-> 0, user_limit |-> 0,
          permission_overwrites |-> <<>>],
         [id |-> 29, name |-> "chat", type |-> 11, parent_id |-> 28, position |-> 4,
          topic |-> Missing, nsfw |-> FALSE, bitrate |-> 0, user_limit |-> 0,
          permission_overwrites |->
            << [id |-> 2, type |-> 0, allow |-> <<1>>, deny |-> <<0>>] >>],
         [id |-> 30, name |-> "General", type |-> 16, parent_id |-> None, position |-> 5,
          topic |-> Missing, nsfw |-> FALSE, bitrate |-> 0, user_limit |-> 0,
          permission_overwrites |-> <<>>],
         [id |-> 43, name |-> "ideas", type |-> 15, parent_id |-> None, position |-> 6,
          topic |-> Null, nsfw |-> FALSE, bitrate |-> 0, user_limit |-> 0,
          permission_overwrites |-> <<>>] >>
    ELSE
      << [id |-> 41, name |-> "General", type |-> 4, parent_id |-> None, position |-> 0,
          topic |-> Missing, nsfw |-> FALSE, bitrate |-> 0, user_limit |-> 0,
          permission_overwrites |-> <<>>],
         [id |-> 42, name |-> "chat", type |-> 0, parent_id |-> 41, position |-> 0,
          topic |-> Null, nsfw |-> FALSE, bitrate |-> 0, user_limit |-> 0,
          permission_overwrites |-> <<>>] >>

\* GET /guilds/{id}/emojis
DiscordEmojis(g) ==
    IF g = 1 THEN << [id |-> 31, name |-> "smile", animated |-> FALSE] >>
    ELSE IF g = 2 THEN << [id |-> 32, name |-> "wave", animated |-> TRUE],
                          [id |-> 33, name |-> "party", animated |-> FALSE] >>
    ELSE <<>>

\* -------------------------------------------- destination platform (Fluxer)

\* The destination guild the user already has before the batch starts.
ExistingFluxerGuild == 100

InitialFluxerRoles ==
    << [id |-> 101, guild |-> 100, name |-> "@everyone", position |-> 0],
       [id |-> 102, guild |-> 100, name |-> "Admin", position |-> 1] >>

InitialFluxerChannels ==
    << [id |-> 103, guild |-> 100, name |-> "General", type |-> 4, parent_id |-> None],
       [id |-> 104, guild |-> 100, name |-> "chat", type |-> 0, parent_id |-> 103],
       [id |-> 106, guild |-> 100, name |-> "help", type |-> 0, parent_id |-> None],
       [id |-> 107, guild |-> 100, name |-> "Lobby", type |-> 0, parent_id |-> None] >>

InitialFluxerEmojis ==
    << [id |-> 105, guild |-> 100, name |-> "smile"] >>

FirstFreshId == 200

\* ------------------------------------------------------------- user input

\* The migration_options migrate_server accepts: four toggles, each read
\* with default True.  select_migration_options builds the ones in which
\* permissions is only on with channels; a caller's dict that leaves the
\* permissions key out while turning channels off gives the others.
MigrationOptions ==
    [roles : BOOLEAN, channels : BOOLEAN, permissions : BOOLEAN, emojis : BOOLEAN]

AllOn == [roles |-> TRUE, channels |-> TRUE, permissions |-> TRUE, emojis |-> TRUE]

RolesOff == [roles |-> FALSE, channels |-> TRUE, permissions |-> TRUE, emojis |-> TRUE]

\* Answers of select_fluxer_guild_for_migration: [1] new guild, [2] add to an
\* existing guild, [3] smart sync into an existing guild.
Targets ==
    { [existing |-> None, partial_sync |-> FALSE],
      [existing |-> ExistingFluxerGuild, partial_sync |-> FALSE],
      [existing |-> ExistingFluxerGuild, partial_sync |-> TRUE] }

Request(g, o, t) ==
    [guild |-> g, options |-> o, existing |-> t.existing, partial_sync |-> t.partial_sync]

\* One selected server, every option set, every target.
SinglePlans ==
    { <<Request(g, o, t)>> : g \in DiscordGuilds, o \in MigrationOptions, t \in Targets }

\* Two selected servers (the fallback selection accepts "1,1": the same server
\* twice).  The first is migrated with everything enabled.
BatchPlans ==
    { <<Request(1, AllOn, t1), Request(g, o, t2)>> :
        t1 \in Targets, g \in DiscordGuilds, o \in {AllOn, RolesOff}, t2 \in Targets }

Plans == SinglePlans \cup BatchPlans

\* ------------------------------------------------------------------- state

VARIABLES
    plan,                  \* the selected servers with the user's answers for each
    gi,                    \* migrate_servers: index of the server being migrated
    pc,                    \* control point
    result,                \* return value of the current / last migrate_server call
    guild_id_map, role_id_map, category_id_map, channel_id_map,
    fluxer_guild_id,       \* migrate_server locals
    existing_fluxer_items,
    roles, channels, emojis,
    existing_roles_by_name,    \* the lists the stages build their name lookups from
    existing_channels_by_name,
    existing_emojis_by_name,
    todo, idx,             \* the list a stage loop iterates over and the loop index
    role_positions_to_set,
    channel_count, emoji_count,
    fx_guilds, fx_roles, fx_channels, fx_emojis, nextId,   \* destination platform
    calls,                 \* client calls and sleeps of the current migrate_server call
    log,                   \* logger lines of the current migrate_server call
    failures               \* failed calls so far in the batch

maps == <<guild_id_map, role_id_map, category_id_map, channel_id_map>>
locals == <<fluxer_guild_id, existing_fluxer_items, roles, channels, emojis,
            existing_roles_by_name, existing_channels_by_name, existing_emojis_by_name,
            todo, idx, role_positions_to_set, channel_count, emoji_count>>
lookups == <<existing_roles_by_name, existing_channels_by_name, existing_emojis_by_name>>
fluxer == <<fx_guilds, fx_roles, fx_channels, fx_emojis, nextId>>
vars == <<plan, gi, pc, result, maps, locals, fluxer, calls, log, failures>>

Absent == [present |-> FALSE, items |-> <<>>]
Present(items) == [present |-> TRUE, items |-> items]
NoItems == [roles |-> Absent, channels |-> Absent, emojis |-> Absent]

\* The request being served.
req == plan[gi]
options == req.options
discord_guild == DiscordGuild(req.guild)

\* A client call (or sleep) as the engine issues it; site is the line of
\* server_migrator.py that issues it, src the source item it is made for.
NoCall ==
    [op |-> "", site |-> 0, guild |-> None, src |-> None, id |-> None, name |-> "", type |-> 0,
     parent_id |-> None, position |-> 0, role |-> None, allow |-> 0, deny |-> 0,
     permissions |-> 0, color |-> 0, hoist |-> FALSE, mentionable |-> FALSE,
     nsfw |-> FALSE, bitrate |-> 0, user_limit |-> 0, topic |-> <<>>, ext |-> "",
     ow |-> 0, payload |-> <<>>, ok |-> TRUE]

LogLine(kind, name, n) == [kind |-> kind, name |-> name, n |-> n]

\* Whether one more call may fail, and the outcomes a call can have.
CanFail == failures < MaxFailures
Outcomes == IF CanFail THEN BOOLEAN ELSE {TRUE}

\* The destination's answers to the list fetches.
FluxerRolesOf(g) == SelectSeq(fx_roles, LAMBDA r : r.guild = g)
FluxerChannelsOf(g) == SelectSeq(fx_channels, LAMBDA c : c.guild = g)
FluxerEmojisOf(g) == SelectSeq(fx_emojis, LAMBDA e : e.guild = g)

Init ==
    /\ plan \in Plans
    /\ gi = 0
    /\ pc = "idle"
    /\ result = "none"
    /\ guild_id_map = EmptyMap
    /\ role_id_map = EmptyMap
    /\ category_id_map = EmptyMap
    /\ channel_id_map = EmptyMap
    /\ fluxer_guild_id = None
    /\ existing_fluxer_items = NoItems
    /\ roles = <<>>
    /\ channels = <<>>
    /\ emojis = <<>>
    /\ existing_roles_by_name = <<>>
    /\ existing_channels_by_name = <<>>
    /\ existing_emojis_by_name = <<>>
    /\ todo = <<>>
    /\ idx = 0
    /\ role_positions_to_set = <<>>
    /\ channel_count = 0
    /\ emoji_count = 0
    /\ fx_guilds = {ExistingFluxerGuild}
    /\ fx_roles = InitialFluxerRoles
    /\ fx_channels = InitialFluxerChannels
    /\ fx_emojis = InitialFluxerEmojis
    /\ nextId = FirstFreshId
    /\ calls = <<>>
    /\ log = <<>>
    /\ failures = 0

\* ------------------------------------------------------------ orchestration

\* The stages in the order migrate_server runs them.
StageOrder == <<"roles", "channels", "emojis">>

StageIndex(stage) == IF stage = "setup" THEN 0
                     ELSE CHOOSE i \in 1..Len(StageOrder) : StageOrder[i] = stage

\* NextStage with the channel stage run ahead of the role stage.
NextStage_ChannelsFirst(stage, o) ==
    LET order == <<"channels", "roles", "emojis">>
        at == IF stage = "setup" THEN 0 ELSE CHOOSE i \in 1..3 : order[i] = stage
        later == {i \in 1..3 : i > at /\ o[order[i]]}
    IN  IF later = {} THEN "success"
        ELSE order[CHOOSE i \in later : \A j \in later : i <= j]

\* NextStage with every stage run whatever its toggle says.
NextStage_IgnoresToggles(stage, o) ==
    IF stage = "setup" THEN "roles"
    ELSE IF stage = "roles" THEN "channels"
    ELSE IF stage = "channels" THEN "emojis"
    ELSE "success"

\* The control point that comes once `stage` is over: the first later stage
\* whose toggle is on, or the successful return.
NextStage(stage, o) ==
    LET later == {i \in 1..Len(StageOrder) : i > StageIndex(stage) /\ o[StageOrder[i]]}
    IN  IF later = {} THEN "success"
        ELSE StageOrder[CHOOSE i \in later : \A j \in later : i <= j]

\* The extension of a CDN asset url: "gif" if animated else "png".
ImageExt(animated) == IF animated THEN "gif" ELSE "png"

\* ReturnFalse with the handler returning True.
ReturnFalse_ReturnsTrue(newCalls) ==
    /\ calls' = calls \o newCalls
    /\ log' = Append(log, LogLine("error", "Server migration failed", 0))
    /\ result' = "true"
    /\ pc' = "idle"

\* ReturnFalse with the exception swallowed where it is raised: the failure
\* is logged and migrate_server goes on.
ReturnFalse_KeepsGoing(newCalls) ==
    /\ calls' = calls \o newCalls
    /\ log' = Append(log, LogLine("error", "Server migration failed", 0))
    /\ result' = result
    /\ pc' = "fetch"

\* ReturnFalse with the failure ending only the stage it happened in: it is
\* logged and migrate_server goes on with the channels.
ReturnFalse_EndsStageOnly(newCalls) ==
    /\ calls' = calls \o newCalls
    /\ log' = Append(log, LogLine("error", "Server migration failed", 0))
    /\ result' = result
    /\ pc' = "channels"

\* except Exception: log the failure and return False.
ReturnFalse(newCalls) ==
    /\ calls' = calls \o newCalls
    /\ log' = Append(log, LogLine("error", "Server migration failed", 0))
    /\ result' = "false"
    /\ pc' = "idle"

\* LoopContinues with the batch given up after a failed guild.
LoopContinues_StopsOnFailure(success) == success # "false"

\* migrate_servers discards what migrate_server returns (lines 480-487): the
\* loop goes on to the next server whatever the last result was.
LoopContinues(success) == TRUE

\* migrate_servers: take the next selected server and call migrate_server.
migrate_servers_next ==
    /\ pc = "idle"
    /\ gi < Len(plan)
    /\ LoopContinues(result)
    /\ gi' = gi + 1
    /\ pc' = "resolve"
    /\ result' = "none"
    /\ fluxer_guild_id' = None
    /\ existing_fluxer_items' = NoItems
    /\ roles' = <<>>
    /\ channels' = <<>>
    /\ emojis' = <<>>
    /\ existing_roles_by_name' = <<>>
    /\ existing_channels_by_name' = <<>>
    /\ existing_emojis_by_name' = <<>>
    /\ todo' = <<>>
    /\ idx' = 0
    /\ role_positions_to_set' = <<>>
    /\ channel_count' = 0
    /\ emoji_count' = 0
    /\ calls' = <<>>
    /\ log' = <<>>
    /\ UNCHANGED <<plan, maps, fluxer, failures>>

\* migrate_servers: the loop is over.
migrate_servers_done ==
    /\ pc = "idle"
    /\ gi = Len(plan) \/ ~LoopContinues(result)
    /\ pc' = "exit"
    /\ UNCHANGED <<plan, gi, result, maps, locals, fluxer, calls, log, failures>>

\* ReusesGuild with the supplied guild id ignored.
ReusesGuild_Never(existing) == FALSE

\* if existing_fluxer_guild_id: (line 69)
ReusesGuild(existing) == existing # None

\* migrate_server, lines 68-96: reuse the given destination guild or create one
\* (with the downloaded icon when the source guild has one).
migrate_server_resolve ==
    /\ pc = "resolve"
    /\ IF ReusesGuild(req.existing)
       THEN /\ fluxer_guild_id' = req.existing
            /\ guild_id_map' = MapPut(guild_id_map, discord_guild.id, req.existing)
            /\ pc' = "prefetch"
            /\ UNCHANGED <<fluxer, calls, log, result, failures>>
       ELSE \E iconOk \in (IF discord_guild.icon # "" THEN Outcomes ELSE {TRUE}) :
            LET dl == IF discord_guild.icon = "" THEN <<>>
                      ELSE << [NoCall EXCEPT !.op = "download", !.site = 86, !.src = discord_guild.id,
                                             !.name = discord_guild.icon,
                                             !.ext = ImageExt(discord_guild.icon_animated),
                                             !.ok = iconOk] >>
                spent == IF iconOk THEN 0 ELSE 1
            IN  \E ok \in (IF failures + spent < MaxFailures THEN BOOLEAN ELSE {TRUE}) :
                LET create == [NoCall EXCEPT !.op = "create_guild", !.site = 88,
                                             !.src = discord_guild.id,
                                             !.name = discord_guild.name,
                                             !.id = IF ok THEN nextId ELSE None, !.ok = ok]
                IN  /\ failures' = failures + spent + (IF ok THEN 0 ELSE 1)
                    /\ IF ok
                       THEN /\ fluxer_guild_id' = nextId
                            /\ guild_id_map' = MapPut(guild_id_map, discord_guild.id, nextId)
                            /\ fx_guilds' = fx_guilds \cup {nextId}
                            /\ fx_roles' = Append(fx_roles,
                                   [id |-> nextId + 1, guild |-> nextId,
                                    name |-> "@everyone", position |-> 0])
                            /\ nextId' = nextId + 2
                            /\ calls' = calls \o dl \o <<create>>
                            /\ pc' = "prefetch"
                            /\ UNCHANGED <<fx_channels, fx_emojis, log, result>>
                       ELSE /\ ReturnFalse(dl \o <<create>>)
                            /\ UNCHANGED <<fluxer_guild_id, guild_id_map, fluxer>>
    /\ UNCHANGED <<plan, gi, role_id_map, category_id_map, channel_id_map,
                   existing_fluxer_items, roles, channels, emojis, lookups, todo, idx,
                   role_positions_to_set, channel_count, emoji_count>>

\* Wanted with no list fetched at all.
Wanted_Nothing(kinds, wanted) == <<>>

\* The list fetches a toggle set asks for, in the order the code issues them.
Wanted(kinds, wanted) == SelectSeq(kinds, LAMBDA k : wanted[k])

\* A list fetch: op says which platform is asked, name which list.
FetchCall(op, site, kind, g, ok) ==
    [NoCall EXCEPT !.op = op, !.site = site, !.name = kind, !.guild = g, !.ok = ok]

\* The calls of a run of fetches of which the n-th fails (n = 0: none does).
FetchCalls(op, sites, kinds, g, n) ==
    [i \in 1..(IF n = 0 THEN Len(kinds) ELSE n) |->
        FetchCall(op, sites[kinds[i]], kinds[i], g, i # n)]

\* AfterPrefetch with a failed pre-fetch leaving migrate_server.
AfterPrefetch_Raises(ok) == IF ok THEN "fetch" ELSE "idle"

\* Lines 109-113: the except clause of the pre-fetch falls through, so the
\* source fetch is the next control point whether the pre-fetch failed or not.
AfterPrefetch(ok) == "fetch"

\* migrate_server, lines 98-111: in partial sync into an existing guild, fetch
\* the destination's lists; any failure leaves no list at all.
migrate_server_prefetch ==
    /\ pc = "prefetch"
    /\ IF req.partial_sync /\ req.existing # None
       THEN LET kinds == Wanted(<<"roles", "channels", "emojis">>, options)
            IN  \E n \in 0..(IF CanFail THEN Len(kinds) ELSE 0) :
                /\ calls' = calls \o FetchCalls("fluxer_get", [roles |-> 104, channels |-> 106, emojis |-> 108],
                                             kinds, fluxer_guild_id, n)
                /\ failures' = failures + (IF n = 0 THEN 0 ELSE 1)
                /\ pc' = AfterPrefetch(n = 0)
                /\ IF n = 0
                   THEN /\ existing_fluxer_items' =
                             [roles |-> IF options.roles
                                        THEN Present(FluxerRolesOf(fluxer_guild_id)) ELSE Absent,
                              channels |-> IF options.channels
                                        THEN Present(FluxerChannelsOf(fluxer_guild_id)) ELSE Absent,
                              emojis |-> IF options.emojis
                                        THEN Present(FluxerEmojisOf(fluxer_guild_id)) ELSE Absent]
                        /\ log' = log
                   ELSE /\ existing_fluxer_items' = NoItems
                        /\ log' = Append(log, LogLine("warn", "Failed to fetch existing Fluxer data", 0))
       ELSE /\ pc' = AfterPrefetch(TRUE)
            /\ UNCHANGED <<existing_fluxer_items, calls, log, failures>>
    /\ UNCHANGED <<plan, gi, result, maps, fluxer_guild_id, roles, channels, emojis,
                   lookups, todo, idx, role_positions_to_set, channel_count,
                   emoji_count, fluxer>>

\* migrate_server, lines 113-128: fetch the source lists the toggles ask for;
\* a failure is not caught here and ends the guild's migration.
migrate_server_fetch ==
    /\ pc = "fetch"
    /\ LET wanted == [roles |-> options.roles,
                      channels |-> options.channels \/ options.permissions,
                      emojis |-> options.emojis]
           kinds == Wanted(<<"roles", "channels", "emojis">>, wanted)
       IN  \E n \in 0..(IF CanFail THEN Len(kinds) ELSE 0) :
           LET cs == FetchCalls("discord_get", [roles |-> 122, channels |-> 125, emojis |-> 128],
                                kinds, discord_guild.id, n)
           IN  IF n = 0
               THEN /\ roles' = IF wanted.roles THEN DiscordRoles(discord_guild.id) ELSE <<>>
                    /\ channels' = IF wanted.channels THEN DiscordChannels(discord_guild.id) ELSE <<>>
                    /\ emojis' = IF wanted.emojis THEN DiscordEmojis(discord_guild.id) ELSE <<>>
                    /\ calls' = calls \o cs
                    /\ pc' = NextStage("setup", options)
                    /\ UNCHANGED <<log, result, failures>>
               ELSE /\ ReturnFalse(cs)
                    /\ failures' = failures + 1
                    /\ UNCHANGED <<roles, channels, emojis>>
    /\ UNCHANGED <<plan, gi, maps, fluxer_guild_id, existing_fluxer_items, lookups,
                   todo, idx, role_positions_to_set, channel_count, emoji_count, fluxer>>

\* migrate_server, lines 145-146: every enabled stage is over.
migrate_server_success ==
    /\ pc = "success"
    /\ log' = Append(log, LogLine("info", "migrated successfully", 0))
    /\ result' = "true"
    /\ pc' = "idle"
    /\ UNCHANGED <<plan, gi, maps, locals, fluxer, calls, failures>>

\* -------------------------------------------------------------- role stage

\* Sleep with no delay taken.
Sleep_NoDelay(site) == [NoCall EXCEPT !.op = "nodelay", !.site = site]

\* await asyncio.sleep(3.0) at the given line.
Sleep(site) == [NoCall EXCEPT !.op = "sleep", !.site = site]

\* EveryoneIndex with the default role never found.
EveryoneIndex_None(rs) == 0

\* next((r for r in roles if r.get("name") == "@everyone"), None): its index, 0 if none.
EveryoneIndex(rs) ==
    LET hits == {i \in 1..Len(rs) : rs[i].name = "@everyone"}
    IN  IF hits = {} THEN 0 ELSE CHOOSE i \in hits : \A j \in hits : i <= j

\* roles = [r for r in roles if r.get("name") != "@everyone"]
WithoutEveryone(rs) == SelectSeq(rs, LAMBDA r : r.name # "@everyone")

\* _migrate_roles, lines 195-219: use the pre-fetched destination roles or
\* fetch them, map the default role, and set up the creation loop.
migrate_roles_begin ==
    /\ pc = "roles"
    /\ \E ok \in (IF existing_fluxer_items.roles.present THEN {TRUE} ELSE Outcomes) :
       LET fetch == IF existing_fluxer_items.roles.present THEN <<>>
                    ELSE <<FetchCall("fluxer_get", 197, "roles", fluxer_guild_id, ok)>>
           existing == IF existing_fluxer_items.roles.present
                       THEN existing_fluxer_items.roles.items
                       ELSE FluxerRolesOf(fluxer_guild_id)
           e == EveryoneIndex(roles)
           fluxer_everyone == IdByName(existing, "@everyone")
           mapped == e # 0 /\ fluxer_everyone # None
       IN  IF ok
           THEN /\ existing_roles_by_name' = existing
                /\ role_id_map' = IF mapped
                                  THEN MapPut(role_id_map, roles[e].id, fluxer_everyone)
                                  ELSE role_id_map
                /\ role_positions_to_set' =
                       IF mapped
                       THEN <<[id |-> fluxer_everyone, position |-> roles[e].position]>>
                       ELSE <<>>
                /\ roles' = WithoutEveryone(roles)
                /\ todo' = SortedByPosition(WithoutEveryone(roles))
                /\ idx' = 1
                /\ calls' = calls \o fetch
                /\ pc' = "role_loop"
                /\ UNCHANGED <<log, result, failures>>
           ELSE /\ ReturnFalse(fetch)
                /\ failures' = failures + 1
                /\ UNCHANGED <<existing_roles_by_name, role_id_map, role_positions_to_set, roles,
                               todo, idx>>
    /\ UNCHANGED <<plan, gi, guild_id_map, category_id_map, channel_id_map, fluxer_guild_id,
                   existing_fluxer_items, channels, emojis, existing_channels_by_name,
                   existing_emojis_by_name, channel_count, emoji_count, fluxer>>

\* CreateRoleCall with the permissions left at the destination's default.
CreateRoleCall_NoPermissions(role, g, newId, ok) ==
    [NoCall EXCEPT !.op = "create_role", !.site = 251, !.guild = g, !.src = role.id, !.name = role.name,
                   !.color = role.color, !.hoist = role.hoist, !.mentionable = role.mentionable,
                   !.id = IF ok THEN newId ELSE None, !.ok = ok]

\* The create_guild_role call for a source role (lines 251-258).
CreateRoleCall(role, g, newId, ok) ==
    [NoCall EXCEPT !.op = "create_role", !.site = 251, !.guild = g, !.src = role.id, !.name = role.name,
                   !.permissions = ParseInt(role.permissions), !.color = role.color,
                   !.hoist = role.hoist, !.mentionable = role.mentionable,
                   !.id = IF ok THEN newId ELSE None, !.ok = ok]

\* Whether the loop treats the role as already existing (line 232).
RoleExists(role, existing) == NameIn(existing, role.name)

\* AfterRoleFailure with the failed role tried again.
AfterRoleFailure_Retries(i, n) == i

\* AfterRoleFailure with the failure leaving the loop.
AfterRoleFailure_Breaks(i, n) == n + 1

\* Lines 273-274: the except clause logs and falls through to the next
\* iteration.  The loop index after an iteration whose create call failed.
AfterRoleFailure(i, n) == i + 1

\* _migrate_roles, lines 222-274: one iteration of the creation loop.
migrate_roles_step ==
    /\ pc = "role_loop"
    /\ idx <= Len(todo)
    /\ LET role == todo[idx]
       IN  IF RoleExists(role, existing_roles_by_name)
           THEN LET fluxer_role_id == IdByName(existing_roles_by_name, role.name)
                IN  /\ role_id_map' = MapPut(role_id_map, role.id, fluxer_role_id)
                    /\ role_positions_to_set' =
                           Append(role_positions_to_set,
                                  [id |-> fluxer_role_id, position |-> role.position])
                    /\ log' = Append(log, LogLine("skip_role", role.name, 0))
                    /\ idx' = idx + 1
                    /\ UNCHANGED <<calls, fx_roles, nextId, failures>>
           ELSE \E ok \in Outcomes :
                LET call == CreateRoleCall(role, fluxer_guild_id, nextId, ok)
                IN  IF ok
                    THEN /\ fx_roles' = Append(fx_roles,
                                [id |-> nextId, guild |-> fluxer_guild_id, name |-> role.name,
                                 position |-> Len(FluxerRolesOf(fluxer_guild_id))])
                         /\ nextId' = nextId + 1
                         /\ role_id_map' = MapPut(role_id_map, role.id, nextId)
                         /\ role_positions_to_set' =
                                Append(role_positions_to_set,
                                       [id |-> nextId, position |-> role.position])
                         /\ calls' = calls \o <<call, Sleep(271)>>
                         /\ idx' = idx + 1
                         /\ UNCHANGED <<log, failures>>
                    ELSE /\ calls' = Append(calls, call)
                         /\ log' = Append(log, LogLine("warn", role.name, 0))
                         /\ failures' = failures + 1
                         /\ idx' = AfterRoleFailure(idx, Len(todo))
                         /\ UNCHANGED <<fx_roles, nextId, role_id_map, role_positions_to_set>>
    /\ UNCHANGED <<plan, gi, pc, result, guild_id_map, category_id_map, channel_id_map,
                   fluxer_guild_id, existing_fluxer_items, roles, channels, emojis,
                   lookups, todo, channel_count, emoji_count,
                   fx_guilds, fx_channels, fx_emojis>>

\* The count logged as "Migrated N roles" (line 276).
MigratedRolesReported(rs) == Len(rs)

\* The destination after a successful PATCH /guilds/{id}/roles.
Repositioned(fxr, payload) ==
    [i \in 1..Len(fxr) |->
        LET hits == {k \in 1..Len(payload) : payload[k].id = fxr[i].id}
        IN  IF hits = {} THEN fxr[i]
            ELSE [fxr[i] EXCEPT !.position =
                      payload[CHOOSE k \in hits : \A j \in hits : j <= k].position]]

\* AfterReorder with a failed reposition call ending the run at once, as a
\* success.
AfterReorder_SkipsStages(ok, o) == IF ok THEN NextStage("roles", o) ELSE "success"

\* AfterReorder with a failed reposition call leaving migrate_server.
AfterReorder_Raises(ok, o) == IF ok THEN NextStage("roles", o) ELSE "idle"

\* _reorder_roles catches the failure of its call (lines 183-184), so the role
\* stage ends the same way whether the call went through or not.
AfterReorder(ok, o) == NextStage("roles", o)

\* _migrate_roles, lines 276-280, with _reorder_roles, lines 165-184: report
\* the count and send the bulk reposition call.
migrate_roles_end ==
    /\ pc = "role_loop"
    /\ idx > Len(todo)
    /\ LET line == LogLine("migrated_roles", "", MigratedRolesReported(roles))
       IN  IF role_positions_to_set = <<>>
           THEN /\ log' = Append(log, line)
                /\ pc' = NextStage("roles", options)
                /\ UNCHANGED <<calls, fx_roles, failures>>
           ELSE \E ok \in Outcomes :
                LET sorted_positions == SortedByPositionDesc(role_positions_to_set)
                    call == [NoCall EXCEPT !.op = "reorder_roles", !.site = 177,
                                           !.guild = fluxer_guild_id,
                                           !.payload = sorted_positions, !.ok = ok]
                IN  /\ calls' = Append(calls, call)
                    /\ pc' = AfterReorder(ok, options)
                    /\ IF ok
                       THEN /\ fx_roles' = Repositioned(fx_roles, sorted_positions)
                            /\ log' = Append(log, line)
                            /\ UNCHANGED failures
                       ELSE /\ log' = log \o <<line, LogLine("warn", "Failed to reorder roles", 0)>>
                            /\ failures' = failures + 1
                            /\ UNCHANGED fx_roles
    /\ UNCHANGED <<plan, gi, result, maps, locals, fx_guilds, fx_channels, fx_emojis, nextId>>

\* ----------------------------------------------------------- channel stage

\* The overwrites of a channel that lead to an edit call (lines 298-310): of
\* kind role, and with the role id resolved through the role map.
PermIndices(channel) ==
    {i \in 1..Len(channel.permission_overwrites) :
        /\ channel.permission_overwrites[i].type = 0
        /\ MapGet(role_id_map, channel.permission_overwrites[i].id) # None}

\* EditCall with the allow and deny bitmasks swapped.
EditCall_SwapsMasks(channel, i, fluxer_channel_id, ok) ==
    LET overwrite == channel.permission_overwrites[i]
    IN  [NoCall EXCEPT !.op = "edit_permissions", !.site = 316, !.src = channel.id, !.ow = i,
                       !.id = fluxer_channel_id,
                       !.role = MapGet(role_id_map, overwrite.id),
                       !.allow = ParseInt(overwrite.deny),
                       !.deny = ParseInt(overwrite.allow),
                       !.type = 0, !.ok = ok]

\* EditCall aimed at the source channel's id instead of the destination's.
EditCall_TargetsSource(channel, i, fluxer_channel_id, ok) ==
    LET overwrite == channel.permission_overwrites[i]
    IN  [NoCall EXCEPT !.op = "edit_permissions", !.site = 316, !.src = channel.id, !.ow = i,
                       !.id = channel.id,
                       !.role = MapGet(role_id_map, overwrite.id),
                       !.allow = ParseInt(overwrite.allow),
                       !.deny = ParseInt(overwrite.deny),
                       !.type = 0, !.ok = ok]

\* The edit_channel_permissions call for the i-th overwrite (lines 312-322).
EditCall(channel, i, fluxer_channel_id, ok) ==
    LET overwrite == channel.permission_overwrites[i]
    IN  [NoCall EXCEPT !.op = "edit_permissions", !.site = 316, !.src = channel.id, !.ow = i,
                       !.id = fluxer_channel_id,
                       !.role = MapGet(role_id_map, overwrite.id),
                       !.allow = ParseInt(overwrite.allow),
                       !.deny = ParseInt(overwrite.deny),
                       !.type = 0, !.ok = ok]

\* ApplyChannelPermissions with the first failed call ending the loop.
ApplyChannelPermissions_StopsAtFailure(channel, fluxer_channel_id, failed) ==
    LET all == [i \in 1..Len(channel.permission_overwrites) |-> i]
        issued == SelectSeq(all, LAMBDA i :
                      i \in PermIndices(channel) /\ \A f \in failed : i <= f)
    IN  [k \in 1..Len(issued) |->
            EditCall(channel, issued[k], fluxer_channel_id, issued[k] \notin failed)]

\* _apply_channel_permissions: the calls it issues, in overwrite order; the
\* calls for the overwrites in failed raise and are caught one by one.
ApplyChannelPermissions(channel, fluxer_channel_id, failed) ==
    LET all == [i \in 1..Len(channel.permission_overwrites) |-> i]
        issued == SelectSeq(all, LAMBDA i : i \in PermIndices(channel))
    IN  [k \in 1..Len(issued) |->
            EditCall(channel, issued[k], fluxer_channel_id, issued[k] \notin failed)]

\* The sets of overwrites whose edit call may fail, given the failures left.
FailSets(channel, enabled, left) ==
    IF enabled
    THEN {F \in SUBSET PermIndices(channel) : Cardinality(F) <= left}
    ELSE {{}}

PermissionCalls(channel, fluxer_channel_id, enabled, failed) ==
    IF enabled THEN ApplyChannelPermissions(channel, fluxer_channel_id, failed) ELSE <<>>

PermissionLog(cs) ==
    [k \in 1..Len(cs) |-> LogLine(IF cs[k].ok THEN "info" ELSE "warn", "permission overwrite", 0)]

\* Categories with no channel taken for a category.
Categories_None(chs) == <<>>

\* categories = [ch for ch in channels if ch.get("type") == 4]  (line 344)
Categories(chs) == SelectSeq(chs, LAMBDA ch : ch.type = 4)

\* _migrate_channels, lines 335-346: the name lookup over the pre-fetched
\* destination channels and the categories in creation order.
migrate_channels_begin ==
    /\ pc = "channels"
    /\ existing_channels_by_name' = existing_fluxer_items.channels.items
    /\ todo' = SortedByPosition(Categories(channels))
    /\ idx' = 1
    /\ channel_count' = 0
    /\ pc' = "category_loop"
    /\ UNCHANGED <<plan, gi, result, maps, fluxer_guild_id, existing_fluxer_items, roles,
                   channels, emojis, existing_roles_by_name, existing_emojis_by_name,
                   role_positions_to_set, emoji_count, fluxer, calls, log, failures>>

\* The create_guild_channel call for a category (lines 366-371).
CreateCategoryCall(category, g, newId, ok) ==
    [NoCall EXCEPT !.op = "create_channel", !.site = 366, !.guild = g, !.src = category.id,
                   !.name = category.name, !.type = 4, !.position = category.position,
                   !.id = IF ok THEN newId ELSE None, !.ok = ok]

\* _migrate_channels, lines 346-385: one iteration of the category pass.
migrate_categories_step ==
    /\ pc = "category_loop"
    /\ idx <= Len(todo)
    /\ LET category == todo[idx]
       IN  IF NameIn(existing_channels_by_name, category.name)
           THEN LET existing_id == IdByName(existing_channels_by_name, category.name)
                IN  \E F \in FailSets(category, options.permissions, MaxFailures - failures) :
                    LET edits == PermissionCalls(category, existing_id, options.permissions, F)
                    IN  /\ category_id_map' = MapPut(category_id_map, category.id, existing_id)
                        /\ calls' = calls \o edits
                        /\ log' = log \o <<LogLine("skip_category", category.name, 0)>>
                                      \o PermissionLog(edits)
                        /\ failures' = failures + Cardinality(F)
                        /\ UNCHANGED <<fx_channels, nextId>>
           ELSE \E ok \in Outcomes :
                LET call == CreateCategoryCall(category, fluxer_guild_id, nextId, ok)
                IN  IF ok
                    THEN \E F \in FailSets(category, options.permissions, MaxFailures - failures) :
                         LET edits == PermissionCalls(category, nextId, options.permissions, F)
                         IN  /\ fx_channels' = Append(fx_channels,
                                    [id |-> nextId, guild |-> fluxer_guild_id,
                                     name |-> category.name, type |-> 4, parent_id |-> None])
                             /\ nextId' = nextId + 1
                             /\ category_id_map' = MapPut(category_id_map, category.id, nextId)
                             /\ calls' = calls \o <<call>> \o edits \o <<Sleep(382)>>
                             /\ log' = log \o PermissionLog(edits)
                             /\ failures' = failures + Cardinality(F)
                    ELSE /\ calls' = Append(calls, call)
                         /\ log' = Append(log, LogLine("warn", category.name, 0))
                         /\ failures' = failures + 1
                         /\ UNCHANGED <<fx_channels, nextId, category_id_map>>
    /\ idx' = idx + 1
    /\ UNCHANGED <<plan, gi, pc, result, guild_id_map, role_id_map, channel_id_map,
                   fluxer_guild_id, existing_fluxer_items, roles, channels, emojis,
                   lookups, todo, role_positions_to_set, channel_count, emoji_count,
                   fx_guilds, fx_roles, fx_emojis>>

\* _migrate_channels, lines 387-390: the category pass is over; the second
\* pass goes over all channels in position order.
migrate_categories_end ==
    /\ pc = "category_loop"
    /\ idx > Len(todo)
    /\ todo' = SortedByPosition(channels)
    /\ idx' = 1
    /\ pc' = "channel_loop"
    /\ UNCHANGED <<plan, gi, result, maps, fluxer_guild_id, existing_fluxer_items, roles,
                   channels, emojis, lookups, role_positions_to_set, channel_count,
                   emoji_count, fluxer, calls, log, failures>>

\* ResolveParent with the source parent id passed through unmapped.
ResolveParent_SourceId(channel, cmap) == channel.parent_id

\* Lines 399-401: the destination parent of a leaf channel.
ResolveParent(channel, cmap) ==
    IF channel.parent_id # None THEN MapGet(cmap, channel.parent_id) ELSE None

\* Dispatch with no type skipped: whatever is not voice or forum is created
\* as a text channel.
Dispatch_SkipsNothing(type) ==
    IF type = 2 THEN "voice"
    ELSE IF type = 15 THEN "forum"
    ELSE "text"

\* What the second pass does with a source type code (lines 404-541).
Dispatch(type) ==
    IF type \in {0, 5} THEN "text"
    ELSE IF type = 2 THEN "voice"
    ELSE IF type = 15 THEN "forum"
    ELSE IF type = 13 THEN "stage"
    ELSE IF type \in {10, 11, 12} THEN "thread"
    ELSE "unknown"

\* f"Converted from forum. {channel.get('topic', '')}".strip(), as the marker
\* and what follows it: strip() takes the marker's trailing blank away when
\* nothing follows.
ForumTopic(channel) ==
    LET text == Format(GetOr(channel.topic, ""))
    IN  IF text = "" THEN <<"Converted from forum.">>
        ELSE <<"Converted from forum. ", text>>

\* CreateChannelCall with every leaf channel created as a text channel.
CreateChannelCall_AllText(channel, g, parent_id, newId, ok) ==
    [NoCall EXCEPT !.op = "create_channel", !.guild = g, !.src = channel.id, !.site = 422,
                   !.name = channel.name, !.position = channel.position,
                   !.parent_id = parent_id, !.type = 0, !.nsfw = channel.nsfw,
                   !.topic = <<Get(channel.topic)>>,
                   !.id = IF ok THEN newId ELSE None, !.ok = ok]

\* The create_guild_channel call for a leaf channel (lines 422-430, 463-471,
\* 506-514).
CreateChannelCall(channel, g, parent_id, newId, ok) ==
    LET kind == Dispatch(channel.type)
        base == [NoCall EXCEPT !.op = "create_channel", !.guild = g, !.src = channel.id,
                               !.site = IF kind = "voice" THEN 463
                                        ELSE IF kind = "forum" THEN 506 ELSE 422,
                               !.name = channel.name, !.position = channel.position,
                               !.parent_id = parent_id,
                               !.id = IF ok THEN newId ELSE None, !.ok = ok]
    IN  IF kind = "voice"
        THEN [base EXCEPT !.type = 2, !.bitrate = channel.bitrate,
                          !.user_limit = channel.user_limit]
        ELSE [base EXCEPT !.type = 0, !.nsfw = channel.nsfw,
                          !.topic = IF kind = "forum" THEN ForumTopic(channel)
                                    ELSE <<Get(channel.topic)>>]

\* _migrate_channels, lines 390-541: one iteration of the second pass.
migrate_channels_step ==
    /\ pc = "channel_loop"
    /\ idx <= Len(todo)
    /\ LET channel == todo[idx]
           kind == Dispatch(channel.type)
           parent_id == ResolveParent(channel, category_id_map)
       IN  IF channel.type = 4
           THEN UNCHANGED <<channel_id_map, channel_count, fx_channels, nextId, calls, log,
                            failures>>
           ELSE IF kind \in {"stage", "thread", "unknown"}
           THEN /\ log' = Append(log, LogLine("unsupported", channel.name, channel.type))
                /\ UNCHANGED <<channel_id_map, channel_count, fx_channels, nextId, calls,
                               failures>>
           ELSE IF NameIn(existing_channels_by_name, channel.name)
           THEN LET existing_id == IdByName(existing_channels_by_name, channel.name)
                IN  \E F \in FailSets(channel, options.permissions, MaxFailures - failures) :
                    LET edits == PermissionCalls(channel, existing_id, options.permissions, F)
                    IN  /\ channel_id_map' = MapPut(channel_id_map, channel.id, existing_id)
                        /\ calls' = calls \o edits
                        /\ log' = log \o <<LogLine("skip_channel", channel.name, 0)>>
                                      \o PermissionLog(edits)
                        /\ channel_count' = channel_count + 1
                        /\ failures' = failures + Cardinality(F)
                        /\ UNCHANGED <<fx_channels, nextId>>
           ELSE \E ok \in Outcomes :
                LET call == CreateChannelCall(channel, fluxer_guild_id, parent_id, nextId, ok)
                    note == IF kind = "forum"
                            THEN <<LogLine("unsupported", channel.name, channel.type)>>
                            ELSE <<>>
                IN  IF ok
                    THEN \E F \in FailSets(channel, options.permissions, MaxFailures - failures) :
                         LET edits == PermissionCalls(channel, nextId, options.permissions, F)
                         IN  /\ fx_channels' = Append(fx_channels,
                                    [id |-> nextId, guild |-> fluxer_guild_id,
                                     name |-> channel.name, type |-> call.type,
                                     parent_id |-> parent_id])
                             /\ nextId' = nextId + 1
                             /\ channel_id_map' = MapPut(channel_id_map, channel.id, nextId)
                             /\ calls' = calls \o <<call>> \o edits \o <<Sleep(call.site + 18)>>
                             /\ log' = log \o note \o PermissionLog(edits)
                             /\ channel_count' = channel_count + 1
                             /\ failures' = failures + Cardinality(F)
                    ELSE /\ calls' = Append(calls, call)
                         /\ log' = log \o note \o <<LogLine("warn", channel.name, 0)>>
                         /\ failures' = failures + 1
                         /\ UNCHANGED <<fx_channels, nextId, channel_id_map, channel_count>>
    /\ idx' = idx + 1
    /\ UNCHANGED <<plan, gi, pc, result, guild_id_map, role_id_map, category_id_map,
                   fluxer_guild_id, existing_fluxer_items, roles, channels, emojis,
                   lookups, todo, role_positions_to_set, emoji_count,
                   fx_guilds, fx_roles, fx_emojis>>

\* _migrate_channels, line 543: report the count.
migrate_channels_end ==
    /\ pc = "channel_loop"
    /\ idx > Len(todo)
    /\ log' = Append(log, LogLine("migrated_channels", "", channel_count))
    /\ pc' = NextStage("channels", options)
    /\ UNCHANGED <<plan, gi, result, maps, locals, fluxer, calls, failures>>

\* ------------------------------------------------------------- emoji stage

\* _migrate_emojis, lines 553-566: nothing to do for an empty list; otherwise
\* set up the name lookup and the loop.
migrate_emojis_begin ==
    /\ pc = "emojis"
    /\ IF emojis = <<>>
       THEN /\ log' = Append(log, LogLine("no_emojis", "No emojis to migrate", 0))
            /\ pc' = NextStage("emojis", options)
            /\ UNCHANGED <<existing_emojis_by_name, todo, idx, emoji_count>>
       ELSE /\ existing_emojis_by_name' = existing_fluxer_items.emojis.items
            /\ todo' = emojis
            /\ idx' = 1
            /\ emoji_count' = 0
            /\ pc' = "emoji_loop"
            /\ UNCHANGED log
    /\ UNCHANGED <<plan, gi, result, maps, fluxer_guild_id, existing_fluxer_items, roles,
                   channels, emojis, existing_roles_by_name, existing_channels_by_name,
                   role_positions_to_set, channel_count, fluxer, calls, failures>>

\* AfterEmojiFailure with the failure leaving the loop.
AfterEmojiFailure_Breaks(i, n) == n + 1

\* Where the loop goes after an emoji's download or upload failed (lines
\* 587-589, 604-605): on to the next emoji.
AfterEmojiFailure(i, n) == i + 1

\* _migrate_emojis, lines 566-605: one iteration of the loop.
migrate_emojis_step ==
    /\ pc = "emoji_loop"
    /\ idx <= Len(todo)
    /\ LET emoji == todo[idx]
       IN  IF NameIn(existing_emojis_by_name, emoji.name)
           THEN /\ emoji_count' = emoji_count + 1
                /\ log' = Append(log, LogLine("skip_emoji", emoji.name, 0))
                /\ idx' = idx + 1
                /\ UNCHANGED <<fx_emojis, nextId, calls, failures>>
           ELSE \E got \in Outcomes :
                LET dl == [NoCall EXCEPT !.op = "download", !.site = 585, !.src = emoji.id,
                                         !.name = emoji.name,
                                         !.ext = ImageExt(emoji.animated), !.ok = got]
                IN  IF ~got
                    THEN /\ calls' = Append(calls, dl)
                         /\ log' = Append(log, LogLine("warn", emoji.name, 0))
                         /\ failures' = failures + 1
                         /\ idx' = AfterEmojiFailure(idx, Len(todo))
                         /\ UNCHANGED <<fx_emojis, nextId, emoji_count>>
                    ELSE \E ok \in Outcomes :
                         LET up == [NoCall EXCEPT !.op = "create_emoji", !.site = 592,
                                                  !.guild = fluxer_guild_id,
                                                  !.src = emoji.id, !.name = emoji.name,
                                                  !.id = IF ok THEN nextId ELSE None,
                                                  !.ok = ok]
                         IN  IF ok
                             THEN /\ fx_emojis' = Append(fx_emojis,
                                         [id |-> nextId, guild |-> fluxer_guild_id,
                                          name |-> emoji.name])
                                  /\ nextId' = nextId + 1
                                  /\ emoji_count' = emoji_count + 1
                                  /\ calls' = calls \o <<dl, up, Sleep(602)>>
                                  /\ idx' = idx + 1
                                  /\ UNCHANGED <<log, failures>>
                             ELSE /\ calls' = calls \o <<dl, up>>
                                  /\ log' = Append(log, LogLine("warn", emoji.name, 0))
                                  /\ failures' = failures + 1
                                  /\ idx' = AfterEmojiFailure(idx, Len(todo))
                                  /\ UNCHANGED <<fx_emojis, nextId, emoji_count>>
    /\ UNCHANGED <<plan, gi, pc, result, maps, fluxer_guild_id, existing_fluxer_items, roles,
                   channels, emojis, lookups, todo, role_positions_to_set,
                   channel_count, fx_guilds, fx_roles, fx_channels>>

\* _migrate_emojis, line 607: report the count.
migrate_emojis_end ==
    /\ pc = "emoji_loop"
    /\ idx > Len(todo)
    /\ log' = Append(log, LogLine("migrated_emojis", "", emoji_count))
    /\ pc' = NextStage("emojis", options)
    /\ UNCHANGED <<plan, gi, result, maps, locals, fluxer, calls, failures>>

\* ------------------------------------------------------------ specification

Next ==
    \/ migrate_servers_next
    \/ migrate_servers_done
    \/ migrate_server_resolve
    \/ migrate_server_prefetch
    \/ migrate_server_fetch
    \/ migrate_roles_begin
    \/ migrate_roles_step
    \/ migrate_roles_end
    \/ migrate_channels_begin
    \/ migrate_categories_step
    \/ migrate_categories_end
    \/ migrate_channels_step
    \/ migrate_channels_end
    \/ migrate_emojis_begin
    \/ migrate_emojis_step
    \/ migrate_emojis_end
    \/ migrate_server_success

Spec == Init /\ [][Next]_vars

\* migrate_servers is one coroutine whose awaits all return or raise: a step
\* that can be taken is taken.
FairSpec == Spec /\ WF_vars(Next)

\* ------------------------------------------------------------- properties

\* The positions in calls of the calls with the given op.
CallsOf(op) == {i \in 1..Len(calls) : calls[i].op = op}

\* The positions in calls of the failed calls issued at one of the given lines.
FailedAt(sites) == {i \in 1..Len(calls) : ~calls[i].ok /\ calls[i].site \in sites}

Range(s) == {s[i] : i \in 1..Len(s)}

HasName(items, n) == \E i \in 1..Len(items) : items[i].name = n

IdsNamed(items, n) == {items[i].id : i \in {k \in 1..Len(items) : items[k].name = n}}

\* The value a decimal digit string denotes.
DecimalValue(d) ==
    LET S[i \in 0..Len(d)] == IF i = 0 THEN 0 ELSE S[i - 1] + d[i] * 10^(Len(d) - i)
    IN  S[Len(d)]

\* The fetched source channel with the given id.
SourceChannel(id) == CHOOSE ch \in Range(channels) : ch.id = id

LogHas(kind) == \E i \in 1..Len(log) : log[i].kind = kind

Returned == pc \in {"idle", "exit"} /\ result # "none"

\* The stage a destination call belongs to (0: none of the three).
StageOfCall(c) ==
    IF c.op \in {"create_role", "reorder_roles"} THEN 1
    ELSE IF c.op \in {"create_channel", "edit_permissions"} THEN 2
    ELSE IF c.op = "create_emoji" THEN 3
    ELSE 0

\* C1: within one migrate_server call every create-role / reposition call
\* precedes every create-channel / edit-permission call, and every one of
\* those precedes every create-emoji call.
C1_StagesInOrder ==
    LET stage == [i \in 1..Len(calls) |-> StageOfCall(calls[i])]
        staged == {i \in 1..Len(calls) : stage[i] > 0}
    IN  \A i \in staged : \A j \in staged : i < j => stage[i] <= stage[j]

\* A run through all three stages in which a role creation failed.
C1_Witness ==
    /\ Returned /\ result = "true"
    /\ \E i \in CallsOf("create_role") : ~calls[i].ok
    /\ CallsOf("reorder_roles") # {}
    /\ CallsOf("create_channel") # {}
    /\ CallsOf("edit_permissions") # {}
    /\ CallsOf("create_emoji") # {}

\* The calls whose failure is not caught before migrate_server's own handler:
\* create_guild, the three source fetches, the role stage's own role fetch.
FatalSites == {88, 122, 125, 128, 197}

\* The pre-fetch of the destination lists (lines 104-108).
PrefetchSites == {104, 106, 108}

\* C2 as stated: whenever guild creation, the destination pre-fetch, a source
\* fetch or a call that escapes a sub-migrator fails, migrate_server returns
\* false and runs nothing further.
C2_AnyFetchFailureReturnsFalse ==
    (Returned /\ FailedAt(FatalSites \cup PrefetchSites) # {})
        => (result = "false" /\ Len(calls) \in FailedAt(FatalSites \cup PrefetchSites))

\* C2 amended: whenever guild creation, a source fetch or the role stage's own
\* destination-role fetch fails, migrate_server has returned false with that
\* call as its last one (a failed pre-fetch is caught and the run goes on).
C2_FatalFailureReturnsFalse ==
    /\ result \in {"none", "true", "false"}
    /\ FailedAt(FatalSites) # {}
         => (Returned /\ result = "false" /\ FailedAt(FatalSites) = {Len(calls)})

\* The role stage's own fetch failed after the setup calls went through.
C2_Witness ==
    /\ FailedAt({197}) # {}
    /\ CallsOf("discord_get") # {}
    /\ result = "false"

\* C3 (state part): once create_guild has failed, migrate_server has returned
\* false, no destination guild id is held and no call other than the icon
\* download and create_guild was issued.
C3_NothingAfterFailedCreate ==
    FailedAt({88}) # {}
        => /\ Returned /\ result = "false"
           /\ fluxer_guild_id = None
           /\ \A i \in 1..Len(calls) : calls[i].site \in {86, 88}

\* C3: when no existing guild id is supplied and create_guild fails,
\* migrate_server returns false, the guild map is left as it was, and no role,
\* channel or emoji call is issued.
C3_CreateGuildFailure ==
    /\ []C3_NothingAfterFailedCreate
    /\ [][(\E i \in 1..Len(calls') : ~calls'[i].ok /\ calls'[i].site = 88)
             => guild_id_map' = guild_id_map]_vars

C3_Witness ==
    /\ FailedAt({88}) # {}
    /\ req.existing = None
    /\ pc = "idle"

\* The pre-fetched destination list of a kind, when partial sync holds one.
PartialSyncList(kind) ==
    gi > 0 /\ req.partial_sync /\ existing_fluxer_items[kind].present

\* C4: in partial sync no creation call is issued for a source item whose
\* name is in the pre-fetched destination list of its kind, and once the run
\* is over the identity map sends every such role, category and leaf channel
\* to a destination item of that name.
C4_PartialSyncNoDuplication ==
    /\ \A i \in 1..Len(calls) :
         /\ (calls[i].op = "create_role" /\ PartialSyncList("roles"))
              => ~HasName(existing_fluxer_items.roles.items, calls[i].name)
         /\ (calls[i].op = "create_channel" /\ PartialSyncList("channels"))
              => ~HasName(existing_fluxer_items.channels.items, calls[i].name)
         /\ (calls[i].op = "create_emoji" /\ PartialSyncList("emojis"))
              => ~HasName(existing_fluxer_items.emojis.items, calls[i].name)
    /\ (Returned /\ result = "true" /\ PartialSyncList("roles"))
         => \A r \in Range(DiscordRoles(req.guild)) :
              HasName(existing_fluxer_items.roles.items, r.name)
                => MapGet(role_id_map, r.id) \in IdsNamed(existing_fluxer_items.roles.items, r.name)
    /\ (Returned /\ result = "true" /\ PartialSyncList("channels"))
         => \A ch \in Range(DiscordChannels(req.guild)) :
              HasName(existing_fluxer_items.channels.items, ch.name)
                => /\ ch.type = 4
                        => MapGet(category_id_map, ch.id)
                             \in IdsNamed(existing_fluxer_items.channels.items, ch.name)
                   /\ ch.type \in {0, 5, 2, 15}
                        => MapGet(channel_id_map, ch.id)
                             \in IdsNamed(existing_fluxer_items.channels.items, ch.name)

\* A finished partial sync that matched a role, a category, a leaf channel and
\* an emoji by name and created the role and the channel that were missing.
C4_Witness ==
    /\ Returned /\ result = "true"
    /\ PartialSyncList("roles") /\ PartialSyncList("channels") /\ PartialSyncList("emojis")
    /\ req.guild = 1
    /\ \E i \in CallsOf("create_role") : calls[i].ok /\ calls[i].name = "Mod"
    /\ \E i \in CallsOf("create_channel") : calls[i].ok /\ calls[i].name = "Voice"
    /\ MapGet(role_id_map, 12) = 102
    /\ MapGet(category_id_map, 21) = 103
    /\ MapGet(channel_id_map, 22) = 104
    /\ emoji_count = 1

\* C5: every edit-permission call is made for a role-targeted overwrite whose
\* source role id the role map resolves, targets that destination role id with
\* kind role, and carries the overwrite's allow and deny values.
C5_EditCallsFollowRoleMap ==
    \A i \in CallsOf("edit_permissions") :
        LET overwrite == SourceChannel(calls[i].src).permission_overwrites[calls[i].ow]
        IN  /\ overwrite.type = 0
            /\ overwrite.id \in DOMAIN role_id_map
            /\ role_id_map[overwrite.id] # None
            /\ calls[i].role = role_id_map[overwrite.id]
            /\ calls[i].type = 0
            /\ calls[i].allow = DecimalValue(overwrite.allow)
            /\ calls[i].deny = DecimalValue(overwrite.deny)

\* The overwrite of channel "chat" for role Admin was applied, next to a
\* member-targeted overwrite that was not.
C5_Witness ==
    /\ \E i \in CallsOf("edit_permissions") :
         calls[i].ok /\ calls[i].src = 22 /\ calls[i].allow = 1024 /\ calls[i].deny = 0
    /\ LogHas("migrated_channels")

\* C6 as stated: a migrate_server call with the roles toggle off issues no
\* edit-permission call.
C6_RolesOffNoEditCalls ==
    (gi > 0 /\ ~options.roles) => CallsOf("edit_permissions") = {}

\* C7 as stated: at the start of each migrate_server call the role, category
\* and channel tables are empty.
C7_TablesEmptyAtStart ==
    pc = "resolve"
        => /\ DOMAIN role_id_map = {}
           /\ DOMAIN category_id_map = {}
           /\ DOMAIN channel_id_map = {}

\* The create-role attempts made for a source role.
RoleAttempts(r) == {i \in CallsOf("create_role") : calls[i].src = r.id}

\* The non-default source roles the role stage does not match by name.
UnmatchedRoles ==
    {r \in Range(DiscordRoles(req.guild)) :
        r.name # "@everyone" /\ ~HasName(existing_roles_by_name, r.name)}

\* C8: no role gets a second create attempt; once the role loop is over every
\* non-default, unmatched source role has had exactly one, whatever failed;
\* and a failed create-role call never makes migrate_server return false.
C8_RoleFailureIsolation ==
    gi > 0 =>
        /\ \A r \in Range(DiscordRoles(req.guild)) : Cardinality(RoleAttempts(r)) <= 1
        /\ LogHas("migrated_roles")
             => \A r \in UnmatchedRoles : Cardinality(RoleAttempts(r)) = 1
        /\ (\E i \in CallsOf("create_role") : ~calls[i].ok) => result # "false"

\* The first role creation failed and the second was still attempted.
C8_Witness ==
    /\ LogHas("migrated_roles")
    /\ \E i, j \in CallsOf("create_role") : i < j /\ ~calls[i].ok /\ calls[j].ok
    /\ result = "true"

\* C9 as stated: the reported migrated-role count is the number of non-default
\* roles minus the number of failed creations.
C9_ReportedCountIsSuccesses ==
    \A i \in 1..Len(log) :
        log[i].kind = "migrated_roles"
            => log[i].n = Len(roles) - Cardinality({k \in CallsOf("create_role") : ~calls[k].ok})

\* The leaf channels of the source list that the second pass creates unless
\* they are matched by name.
CreatableLeaves ==
    {ch \in Range(channels) :
        ch.type \in {0, 5, 2, 15} /\ ~HasName(existing_channels_by_name, ch.name)}

\* C10: a leaf channel is created with the category map's entry for its
\* source parent as parent, and top-level when it has no parent or the map
\* has no entry for it; by the end of the stage every unmatched leaf channel
\* has had its create call.
C10_ParentResolution ==
    /\ \A i \in CallsOf("create_channel") :
         calls[i].site # 366
           => LET ch == SourceChannel(calls[i].src)
              IN  calls[i].parent_id =
                    (IF ch.parent_id # None /\ ch.parent_id \in DOMAIN category_id_map
                     THEN category_id_map[ch.parent_id] ELSE None)
    /\ LogHas("migrated_channels")
         => \A ch \in CreatableLeaves :
              Cardinality({i \in CallsOf("create_channel") : calls[i].src = ch.id}) = 1

\* The category's creation failed and its child was created top-level, in a
\* run with no earlier guild.
C10_Witness ==
    /\ gi = 1
    /\ \E i \in CallsOf("create_channel") : calls[i].site = 366 /\ ~calls[i].ok
    /\ \E i \in CallsOf("create_channel") :
         /\ calls[i].ok /\ calls[i].site # 366
         /\ SourceChannel(calls[i].src).parent_id # None
         /\ calls[i].parent_id = None

\* A leaf channel created under the destination id of its migrated category.
C10_WitnessMapped ==
    \E i \in CallsOf("create_channel") :
        /\ calls[i].ok /\ calls[i].site # 366
        /\ calls[i].parent_id # None
        /\ calls[i].parent_id = MapGet(category_id_map, SourceChannel(calls[i].src).parent_id)

\* The unsupported-feature notices recorded for a source channel.
Notices(ch) ==
    {i \in 1..Len(log) :
        log[i].kind = "unsupported" /\ log[i].name = ch.name /\ log[i].n = ch.type}

\* The create-channel calls made for a source channel.
ChannelAttempts(ch) == {i \in CallsOf("create_channel") : calls[i].src = ch.id}

\* C11: a leaf create call is made for a source channel of type 0, 5, 2 or
\* 15 only, at most once, with destination type voice for type 2 and text
\* for the others, and for type 15 with one unsupported-feature notice; by
\* the end of the stage every such channel not matched by name has had its
\* call.
C11_TypeDispatch ==
    /\ \A i \in CallsOf("create_channel") :
         calls[i].site # 366
           => LET ch == SourceChannel(calls[i].src)
              IN  /\ ch.type \in {0, 5, 2, 15}
                  /\ calls[i].type = (IF ch.type = 2 THEN 2 ELSE 0)
                  /\ Cardinality(ChannelAttempts(ch)) = 1
                  /\ ch.type = 15 => Cardinality(Notices(ch)) = 1
                  /\ ch.type # 15 => Notices(ch) = {}
    /\ LogHas("migrated_channels")
         => \A ch \in CreatableLeaves : Cardinality(ChannelAttempts(ch)) = 1

\* The channel stage is over with an announcement channel created as text and
\* a forum channel created as text with its notice.
C11_Witness ==
    /\ LogHas("migrated_channels")
    /\ \E i \in CallsOf("create_channel") :
         calls[i].ok /\ SourceChannel(calls[i].src).type = 5 /\ calls[i].type = 0
    /\ \E i \in CallsOf("create_channel") :
         /\ calls[i].ok /\ SourceChannel(calls[i].src).type = 15 /\ calls[i].type = 0
         /\ Cardinality(Notices(SourceChannel(calls[i].src))) = 1

\* A voice channel created as voice.
C11_WitnessVoice ==
    \E i \in CallsOf("create_channel") :
        calls[i].ok /\ SourceChannel(calls[i].src).type = 2 /\ calls[i].type = 2

\* The source channels the second pass skips: stage, threads, unknown codes.
SkippedChannels == {ch \in Range(channels) : ch.type \notin {0, 2, 4, 5, 15}}

\* C12 (state part): a skipped channel has no create or edit call and no map
\* entry, never more than one notice, and exactly one once the stage is over.
C12_SkippedLeaveNoTrace ==
    gi > 0 =>
      \A ch \in SkippedChannels :
        /\ \A i \in 1..Len(calls) :
             calls[i].op \in {"create_channel", "edit_permissions"} => calls[i].src # ch.id
        /\ ch.id \notin DOMAIN channel_id_map
        /\ ch.id \notin DOMAIN category_id_map
        /\ Cardinality(Notices(ch)) <= 1
        /\ LogHas("migrated_channels") => Cardinality(Notices(ch)) = 1

\* C12: for a source channel of type 13, 10/11/12 or any code other than 0,
\* 2, 4, 5, 15 no create or edit call is issued, no map entry is added, the
\* migrated-channel count is not incremented and exactly one notice is
\* recorded, in either mode and whatever the destination holds.
C12_SkippedTypes ==
    /\ []C12_SkippedLeaveNoTrace
    /\ [][(pc = "channel_loop" /\ idx <= Len(todo) /\ todo[idx] \in SkippedChannels)
             => (channel_count' = channel_count /\ calls' = calls
                 /\ channel_id_map' = channel_id_map)]_vars

\* A partial sync is past its channel stage; the source holds a stage channel,
\* a channel of unknown type and a thread named like a destination channel.
C12_Witness ==
    /\ LogHas("migrated_channels")
    /\ req.partial_sync /\ existing_fluxer_items.channels.present
    /\ \E ch \in SkippedChannels : ch.type = 13
    /\ \E ch \in SkippedChannels : ch.type = 16 /\ HasName(existing_channels_by_name, ch.name)
    /\ \E ch \in SkippedChannels : ch.type = 11 /\ HasName(existing_channels_by_name, ch.name)
    /\ \A ch \in SkippedChannels : Cardinality(Notices(ch)) = 1

\* The destination's default roles in the guild being migrated into.
FluxerEveryone ==
    {r \in Range(fx_roles) : r.guild = fluxer_guild_id /\ r.name = "@everyone"}

\* The default role of the source guild being migrated.
DiscordEveryone ==
    CHOOSE r \in Range(DiscordRoles(req.guild)) : r.name = "@everyone"

\* C13: no create-role call is ever issued for "@everyone"; and once the
\* role stage has mapped the default role, in a first or a repeated run, the
\* destination guild has one "@everyone" role and the role map sends the
\* source default role id to it.
C13_DefaultRoleIdempotent ==
    /\ \A i \in CallsOf("create_role") : calls[i].name # "@everyone"
    /\ (gi > 0 /\ options.roles /\ (pc = "role_loop" \/ LogHas("migrated_roles")))
         => /\ Cardinality(FluxerEveryone) = 1
            /\ DiscordEveryone.id \in DOMAIN role_id_map
            /\ role_id_map[DiscordEveryone.id] \in {r.id : r \in FluxerEveryone}

\* The role stage has run a second time for the same source guild against the
\* same destination guild.
C13_Witness ==
    /\ gi = 2
    /\ plan[1].guild = plan[2].guild
    /\ plan[1].existing # None /\ plan[1].existing = plan[2].existing
    /\ LogHas("migrated_roles")
    /\ role_id_map[DiscordEveryone.id] = 101
    /\ Cardinality({r \in Range(fx_roles) : r.name = "@everyone" /\ r.guild = 100}) = 1

\* The non-default roles of the source guild being migrated.
NonDefaultRoles == {r \in Range(DiscordRoles(req.guild)) : r.name # "@everyone"}

\* C14 as stated: when no pre-fetched destination role list is supplied, the
\* role stage issues no fetch of destination roles and a create-role call for
\* every non-default source role.
C14_FullCopyRolesNoFetch ==
    (gi > 0 /\ ~existing_fluxer_items.roles.present)
        => /\ \A i \in CallsOf("fluxer_get") : calls[i].site # 197
           /\ LogHas("migrated_roles")
                => \A r \in NonDefaultRoles : Cardinality(RoleAttempts(r)) = 1

\* The create attempts made for a source channel or emoji.
ItemAttempts(id) ==
    {i \in 1..Len(calls) : calls[i].src = id /\ calls[i].op \in {"create_channel", "download"}}

\* C16 as stated: after a failed pre-fetch a creation is attempted for every
\* non-default source role, every category, every text, announcement, voice
\* and forum channel and every emoji.
C16_FailedPrefetchCreatesEverything ==
    FailedAt(PrefetchSites) # {}
        => /\ LogHas("migrated_roles")
                => \A r \in NonDefaultRoles : Cardinality(RoleAttempts(r)) = 1
           /\ LogHas("migrated_channels")
                => \A ch \in Range(channels) :
                     ch.type \in {0, 2, 4, 5, 15} => Cardinality(ItemAttempts(ch.id)) = 1
           /\ LogHas("migrated_emojis")
                => \A e \in Range(emojis) : Cardinality(ItemAttempts(e.id)) = 1

\* C16 for channels and emojis alone.
C16_FailedPrefetchCreatesChannelsEmojis ==
    FailedAt(PrefetchSites) # {}
        => /\ LogHas("migrated_channels")
                => \A ch \in Range(channels) :
                     ch.type \in {0, 2, 4, 5, 15} => Cardinality(ItemAttempts(ch.id)) = 1
           /\ LogHas("migrated_emojis")
                => \A e \in Range(emojis) : Cardinality(ItemAttempts(e.id)) = 1

\* Every enabled stage of the current migrate_server call has reached its end.
EnabledStagesEnded ==
    /\ options.roles => LogHas("migrated_roles")
    /\ options.channels => LogHas("migrated_channels")
    /\ options.emojis => (LogHas("migrated_emojis") \/ LogHas("no_emojis"))

\* The source list fetches the toggles ask for have all been issued.
SourceFetched ==
    /\ options.roles => \E i \in CallsOf("discord_get") : calls[i].name = "roles"
    /\ (options.channels \/ options.permissions)
         => \E i \in CallsOf("discord_get") : calls[i].name = "channels"
    /\ options.emojis => \E i \in CallsOf("discord_get") : calls[i].name = "emojis"

\* C15: after a failed pre-fetch of destination state, unless a guild-level
\* call fails later, migrate_server does not return false, and when it is
\* over it has fetched the source data, run every enabled stage to its end
\* and returned true.
C15_PrefetchFailureGoesOn ==
    (gi > 0 /\ FailedAt(PrefetchSites) # {} /\ FailedAt(FatalSites) = {})
        => /\ result # "false"
           /\ pc \in {"idle", "exit"}
                => (result = "true" /\ SourceFetched /\ EnabledStagesEnded)

\* A partial sync with everything enabled returned true after its pre-fetch
\* failed.
C15_Witness ==
    /\ pc = "idle" /\ result = "true"
    /\ FailedAt(PrefetchSites) # {}
    /\ options = AllOn
    /\ CallsOf("create_role") # {} /\ CallsOf("create_channel") # {}
    /\ CallsOf("create_emoji") # {}

\* The failed calls of the kinds a sub-migrator catches item by item.
PerItemFailures ==
    {i \in 1..Len(calls) :
        /\ ~calls[i].ok
        /\ calls[i].op \in {"create_role", "reorder_roles", "create_channel",
                             "edit_permissions", "download", "create_emoji"}}

\* C17: when guild resolution and every list fetch succeed, migrate_server
\* does not return false whatever create-role, reposition, create-channel,
\* edit-permission, download and create-emoji calls fail, and when it is over
\* every enabled stage has run to its end and the result is true.
C17_PerItemErrorsContained ==
    (gi > 0 /\ FailedAt(FatalSites \cup PrefetchSites) = {})
        => /\ result # "false"
           /\ pc \in {"idle", "exit"} => (result = "true" /\ EnabledStagesEnded)

\* A run with everything enabled returned true although the reposition call
\* and a creation call of a later stage failed.
C17_Witness ==
    /\ pc = "idle" /\ result = "true" /\ options = AllOn
    /\ \E i \in PerItemFailures : calls[i].op = "reorder_roles"
    /\ \E i \in PerItemFailures : calls[i].op \in {"create_channel", "create_emoji"}
    /\ EnabledStagesEnded

\* The operations the engine issues: reads, downloads, creations, the
\* permission edit of a channel, the bulk reposition of roles, and sleeps.
AdditiveOps ==
    {"discord_get", "fluxer_get", "download", "sleep", "create_guild", "create_role",
     "reorder_roles", "create_channel", "edit_permissions", "create_emoji"}

\* Every item of a destination list is still there, under its name.
Kept(before, after) ==
    \A x \in Range(before) :
        \E y \in Range(after) : y.id = x.id /\ y.guild = x.guild /\ y.name = x.name

\* C18 (state part): every call is a read, a creation, a permission edit or
\* a reposition; into a supplied destination guild no create-guild call is
\* issued.
C18_OnlyAdditiveCalls ==
    /\ \A i \in 1..Len(calls) : calls[i].op \in AdditiveOps
    /\ \A i \in CallsOf("reorder_roles") :
         \A k \in 1..Len(calls[i].payload) :
            DOMAIN calls[i].payload[k] = {"id", "position"}
    /\ (gi > 0 /\ req.existing # None) => CallsOf("create_guild") = {}

\* C18: across a batch no destination role, channel or emoji is removed or
\* renamed and no destination guild disappears; while migrating into a
\* supplied guild the set of destination guilds does not change and no
\* create-guild call is issued.
C18_AdditiveOnly ==
    /\ []C18_OnlyAdditiveCalls
    /\ [][/\ Kept(fx_roles, fx_roles')
           /\ Kept(fx_channels, fx_channels')
           /\ Kept(fx_emojis, fx_emojis')
           /\ fx_guilds \subseteq fx_guilds'
           /\ (gi' > 0 /\ plan[gi'].existing # None /\ pc # "idle")
                => fx_guilds' = fx_guilds]_vars

\* A second migration into the supplied guild is over: the destination still
\* holds its initial items next to the ones both runs created.
C18_Witness ==
    /\ gi = 2 /\ pc = "idle" /\ result = "true" /\ req.existing # None
    /\ Kept(InitialFluxerRoles, fx_roles)
    /\ Kept(InitialFluxerChannels, fx_channels)
    /\ Kept(InitialFluxerEmojis, fx_emojis)
    /\ Len(fx_roles) > Len(InitialFluxerRoles)
    /\ Len(fx_channels) > Len(InitialFluxerChannels)
    /\ CallsOf("reorder_roles") # {} /\ CallsOf("edit_permissions") # {}

\* C19 (state part): the batch only ends once every selected server has had
\* its migrate_server call.
C19_BatchRunsToEnd == pc = "exit" => gi = Len(plan)

\* C19: between two guilds the only step is the start of the next guild in
\* list order, whatever the last result was; the step on which
\* migrate_server returns false and the step that starts the next guild
\* leave every destination item in place.
C19_BatchIsolation ==
    /\ []C19_BatchRunsToEnd
    /\ [][(pc = "idle" /\ gi < Len(plan)) => (gi' = gi + 1 /\ pc' = "resolve")]_vars
    /\ [][((result' = "false" /\ result # "false") \/ (pc = "idle" /\ result = "false"))
             => fluxer' = fluxer]_vars

\* The items the destination holds in a guild besides its default role.
ItemsIn(g) ==
    {r \in Range(fx_roles) : r.guild = g /\ r.name # "@everyone"}
        \cup {c \in Range(fx_channels) : c.guild = g}
        \cup {e \in Range(fx_emojis) : e.guild = g}

\* The first guild's migration created its destination guild and then failed
\* on a fetch (one failed call, nothing created in the guild); the guild is
\* still there and the second guild was migrated with success.
C19_Witness ==
    /\ gi = 2 /\ pc = "idle" /\ result = "true"
    /\ plan[1].existing = None /\ FirstFreshId \in fx_guilds
    /\ ItemsIn(FirstFreshId) = {}
    /\ failures = 1
    /\ fluxer_guild_id # FirstFreshId
    /\ CallsOf("create_role") # {} /\ CallsOf("create_channel") # {}

\* C20 (state part): what each toggle that is off keeps out of the calls of
\* a migrate_server call, and what the permissions toggle leaves in.
C20_TogglesGateCalls ==
    gi > 0 =>
      /\ ~options.roles
           => \A i \in 1..Len(calls) :
                /\ calls[i].op \notin {"create_role", "reorder_roles"}
                /\ calls[i].op \in {"discord_get", "fluxer_get"} => calls[i].name # "roles"
      /\ ~options.channels
           => \A i \in 1..Len(calls) : calls[i].op \notin {"create_channel", "edit_permissions"}
      /\ ~options.permissions
           => /\ CallsOf("edit_permissions") = {}
              /\ (options.channels /\ LogHas("migrated_channels"))
                   => \A ch \in Range(channels) :
                        (ch.type \in {0, 2, 4, 5, 15}
                           /\ ~HasName(existing_channels_by_name, ch.name))
                          => Cardinality(ChannelAttempts(ch)) = 1
      /\ ~options.emojis
           => \A i \in 1..Len(calls) :
                /\ calls[i].op # "create_emoji"
                /\ calls[i].op = "download" => calls[i].site = 86
                /\ calls[i].op \in {"discord_get", "fluxer_get"} => calls[i].name # "emojis"

\* C20: with roles off no role fetch, create-role or reposition call is
\* issued; with channels off no create-channel and no edit-permission call,
\* even with permissions on; with permissions off no edit-permission call
\* while channels are still created; with emojis off no emoji download or
\* create-emoji call; and the options are never modified.
C20_TogglesGateStages ==
    /\ []C20_TogglesGateCalls
    /\ [][plan' = plan]_vars

\* Only the channels toggle is on: the run is over, channels were created and
\* nothing else was touched.
C20_Witness ==
    /\ pc = "idle" /\ result = "true"
    /\ options = [roles |-> FALSE, channels |-> TRUE, permissions |-> FALSE, emojis |-> FALSE]
    /\ \E i \in CallsOf("create_channel") : calls[i].ok /\ calls[i].site = 366
    /\ \E i \in CallsOf("create_channel") : calls[i].ok /\ calls[i].site # 366

\* Channels off with permissions on: the source channels were fetched and the
\* run is over with the role stage done.
C20_WitnessChannelsOff ==
    /\ pc = "idle" /\ result = "true"
    /\ ~options.channels /\ options.permissions /\ options.roles
    /\ \E i \in CallsOf("discord_get") : calls[i].name = "channels"
    /\ CallsOf("create_role") # {}

\* The scenario of C21 is over: guild "Test" (roles @everyone and Admin, a
\* category General with the text channel chat in it) was migrated in full
\* copy into a new guild, roles and channels enabled, with no failed call.
ScenarioDone ==
    /\ gi > 0 /\ pc = "idle" /\ result # "none"
    /\ req.guild = 3 /\ req.existing = None /\ ~req.partial_sync
    /\ options.roles /\ options.channels
    /\ \A i \in 1..Len(calls) : calls[i].ok

\* C21: in that scenario exactly one create-guild call, one create-role call
\* (Admin, permissions 8), one category creation (General) and one text
\* channel creation (chat, under the id returned for General) were issued,
\* @everyone is mapped to the new guild's default role and not created, and
\* migrate_server returned true.
C21_EndToEnd ==
    ScenarioDone
        => /\ result = "true"
           /\ Cardinality(CallsOf("create_guild")) = 1
           /\ \E i \in CallsOf("create_role") :
                /\ CallsOf("create_role") = {i}
                /\ calls[i].name = "Admin" /\ calls[i].permissions = 8
                /\ role_id_map[14] = calls[i].id
           /\ role_id_map[3] \in {r.id : r \in FluxerEveryone}
           /\ \E c, l \in CallsOf("create_channel") :
                /\ CallsOf("create_channel") = {c, l}
                /\ c < l
                /\ calls[c].name = "General" /\ calls[c].type = 4
                /\ calls[l].name = "chat" /\ calls[l].type = 0
                /\ calls[l].parent_id = calls[c].id /\ calls[c].id # None
                /\ category_id_map[41] = calls[c].id
                /\ channel_id_map[42] = calls[l].id

\* The scenario has been run as the only guild of the batch.
C21_Witness ==
    /\ ScenarioDone /\ Len(plan) = 1 /\ options = AllOn
    /\ LogHas("no_emojis")

\* The creation calls of the three stages.
CreationCalls ==
    {i \in 1..Len(calls) : calls[i].op \in {"create_role", "create_channel", "create_emoji"}}

\* The calls between positions i and j are the permission edits of the
\* channel created at i.
OnlyItsEdits(i, j) ==
    \A k \in (i + 1)..(j - 1) :
        calls[k].op = "edit_permissions" /\ calls[k].src = calls[i].src

\* C22: every successful creation call is followed, after the permission
\* edits of the channel it created, by exactly one delay; every delay follows
\* a successful creation call in that way, so none is taken after a failed
\* creation, a name-matched item, a skipped item or the permission edits of
\* an existing channel.
C22_Pacing ==
    /\ \A i \in CreationCalls :
         IF calls[i].ok
         THEN \E j \in CallsOf("sleep") :
                /\ j > i /\ OnlyItsEdits(i, j)
                /\ (j < Len(calls) => calls[j + 1].op # "sleep")
         ELSE i < Len(calls) => calls[i + 1].op # "sleep"
    /\ \A j \in CallsOf("sleep") :
         \E i \in CreationCalls : i < j /\ calls[i].ok /\ OnlyItsEdits(i, j)
    /\ Cardinality(CallsOf("sleep")) = Cardinality({i \in CreationCalls : calls[i].ok})

\* A partial sync is over in which a channel was created, the creation of a
\* role failed, a role and a channel were matched by name and the matched
\* channel had its permissions re-applied.
C22_Witness ==
    /\ pc = "idle" /\ result = "true" /\ req.partial_sync
    /\ \E i \in CreationCalls : ~calls[i].ok
    /\ \E i \in CallsOf("create_channel") : calls[i].ok
    /\ \E k \in CallsOf("edit_permissions") : calls[k].id = 104
    /\ LogHas("skip_channel") /\ LogHas("skip_role")

\* The first pass has dealt with a source category: a create call was made
\* for it or it was matched by name.
CategoryProcessed(ch) ==
    \/ \E i \in CallsOf("create_channel") : calls[i].site = 366 /\ calls[i].src = ch.id
    \/ \E k \in 1..Len(log) : log[k].kind = "skip_category" /\ log[k].name = ch.name

\* The create calls of the second pass.
LeafCreates == {i \in CallsOf("create_channel") : calls[i].site # 366}

\* C23: every category create call comes before every leaf create call;
\* once the second pass is under way every source category has been matched
\* or has had its create call; category create calls and leaf create calls
\* are each issued in ascending source position.
C23_TwoPass ==
    /\ \A c \in CallsOf("create_channel") \ LeafCreates : \A l \in LeafCreates : c < l
    /\ (gi > 0 /\ (pc = "channel_loop" \/ LeafCreates # {}))
         => \A ch \in Range(channels) : ch.type = 4 => CategoryProcessed(ch)
    /\ \A i, j \in CallsOf("create_channel") \ LeafCreates :
         i < j => SourceChannel(calls[i].src).position <= SourceChannel(calls[j].src).position
    /\ \A i, j \in LeafCreates :
         i < j => SourceChannel(calls[i].src).position <= SourceChannel(calls[j].src).position

\* Both categories of a guild had their create call, the one listed second
\* first, the creation of a leaf channel's parent failed, and that channel
\* was created afterwards.
C23_Witness ==
    /\ \E i, j \in CallsOf("create_channel") \ LeafCreates :
         i < j /\ calls[i].src = 24 /\ calls[j].src = 25 /\ ~calls[j].ok
    /\ \E l \in LeafCreates : calls[l].ok /\ SourceChannel(calls[l].src).parent_id = 25
    /\ Cardinality(LeafCreates) >= 2

\* The source roles the role stage has mapped in the current run: the default
\* role, the roles matched by name, the roles whose creation succeeded.
MappedThisRun ==
    {r \in Range(DiscordRoles(req.guild)) :
        \/ r.name = "@everyone"
        \/ HasName(existing_roles_by_name, r.name)
        \/ \E i \in RoleAttempts(r) : calls[i].ok}

\* The role stage of the current run is over.
RoleStageOver == gi > 0 /\ LogHas("migrated_roles") /\ pc # "role_loop"

\* C24: the reposition call is issued at most once, after every create-role
\* call, and exactly once by the end of the role stage; its payload has one
\* entry of destination id and source position for every role mapped in
\* this run, none for a role whose creation failed, in descending order of
\* position.
C24_Reposition ==
    /\ Cardinality(CallsOf("reorder_roles")) <= 1
    /\ \A i \in CallsOf("reorder_roles") : \A c \in CallsOf("create_role") : c < i
    /\ RoleStageOver
         => Cardinality(CallsOf("reorder_roles")) = (IF MappedThisRun = {} THEN 0 ELSE 1)
    /\ \A i \in CallsOf("reorder_roles") :
         LET payload == calls[i].payload
         IN  /\ Len(payload) = Cardinality(MappedThisRun)
             /\ \A r \in MappedThisRun :
                  \E k \in 1..Len(payload) :
                     payload[k] = [id |-> role_id_map[r.id], position |-> r.position]
             /\ \A k \in 1..Len(payload) :
                  \E r \in MappedThisRun :
                     payload[k] = [id |-> role_id_map[r.id], position |-> r.position]
             /\ \A k, m \in 1..Len(payload) :
                  k < m => payload[k].position >= payload[m].position

\* The reposition call was sent for the default role and a role matched by
\* name, after the creation of another role had failed.
C24_Witness ==
    /\ RoleStageOver
    /\ \E i \in CallsOf("reorder_roles") : Len(calls[i].payload) = 2
    /\ \E c \in CallsOf("create_role") : ~calls[c].ok
    /\ LogHas("skip_role")

\* The reposition call carried three entries.
C24_WitnessThree ==
    \E i \in CallsOf("reorder_roles") :
        Len(calls[i].payload) = 3 /\ calls[i].payload[1].position = 2

\* The reposition call of the current run failed.
ReorderFailed == \E i \in CallsOf("reorder_roles") : ~calls[i].ok

\* C25 (state part): after a failed reposition call migrate_server does not
\* return false, and when it is over every enabled stage has run to its end
\* and the result is true.
C25_RunGoesOn ==
    ReorderFailed
        => /\ result # "false"
           /\ pc \in {"idle", "exit"} => (result = "true" /\ EnabledStagesEnded)

\* C25: a failed reposition call changes neither the role map nor the
\* destination's roles, the later stages still run, and migrate_server
\* returns true.
C25_RepositionFailure ==
    /\ []C25_RunGoesOn
    /\ [][(\E i \in 1..Len(calls') :
               i > Len(calls) /\ calls'[i].op = "reorder_roles" /\ ~calls'[i].ok)
             => (role_id_map' = role_id_map /\ fx_roles' = fx_roles)]_vars

\* The reposition call failed; the channel and emoji stages created their
\* items and the run returned true with the created role still mapped.
C25_Witness ==
    /\ ReorderFailed
    /\ pc = "idle" /\ result = "true" /\ options = AllOn
    /\ \E c \in CallsOf("create_role") :
         calls[c].ok /\ role_id_map[calls[c].src] = calls[c].id
           /\ \E r \in Range(fx_roles) : r.id = calls[c].id
    /\ \E c \in CallsOf("create_channel") : calls[c].ok
    /\ \E c \in CallsOf("create_emoji") : calls[c].ok

\* The edit-permission calls made for overwrites that name a source role.
EditsFor(r) ==
    {i \in CallsOf("edit_permissions") :
        SourceChannel(calls[i].src).permission_overwrites[calls[i].ow].id = r.id}

\* C26 as stated: every role map entry points at a destination role that
\* exists, and no edit-permission call is issued for an overwrite naming a
\* source role whose create-role call failed.
C26_RoleMapValid ==
    /\ \A k \in DOMAIN role_id_map : \E r \in Range(fx_roles) : r.id = role_id_map[k]
    /\ gi > 0
         => \A r \in Range(DiscordRoles(req.guild)) :
              (\E i \in RoleAttempts(r) : ~calls[i].ok) => EditsFor(r) = {}

\* C26 within the first migrate_server call of a batch.
C26_RoleMapValidFirstRun ==
    gi = 1
        => \A r \in Range(DiscordRoles(req.guild)) :
             (\E i \in RoleAttempts(r) : ~calls[i].ok)
                => (EditsFor(r) = {} /\ r.id \notin DOMAIN role_id_map)

\* The source role a create-role call is made for.
SourceRole(id) == CHOOSE r \in Range(DiscordRoles(req.guild)) : r.id = id

\* C27: of two create-role calls the one for the role of lower source
\* position is issued first, and by the end of the role stage every
\* non-default, unmatched role has had its call.
C27_RolesWeakestFirst ==
    /\ \A i, j \in CallsOf("create_role") :
         SourceRole(calls[i].src).position < SourceRole(calls[j].src).position => i < j
    /\ RoleStageOver => \A r \in UnmatchedRoles : RoleAttempts(r) # {}

\* Two roles the source lists strongest first were both created, the weaker
\* one first.
C27_Witness ==
    \E i, j \in CallsOf("create_role") :
        /\ i < j /\ calls[i].ok /\ calls[j].ok
        /\ calls[i].name = "Mod" /\ calls[j].name = "Admin"

\* C28 as stated: once the channel stage is over, an unsupported-feature
\* notice has been recorded for every source forum channel, whether its
\* creation succeeded, failed, or the channel was matched by name.
C28_ForumNoticeAlways ==
    (gi > 0 /\ LogHas("migrated_channels"))
        => \A ch \in Range(channels) : ch.type = 15 => Cardinality(Notices(ch)) = 1

\* C28 for the forum channels that are not matched by name.
C28_ForumNoticeUnlessMatched ==
    (gi > 0 /\ LogHas("migrated_channels"))
        => \A ch \in Range(channels) :
             (ch.type = 15 /\ ~HasName(existing_channels_by_name, ch.name))
                => Cardinality(Notices(ch)) = 1

\* The source channels whose overwrites the channel stage has gone through:
\* created or matched by name, with the permissions toggle on.
PermissionsApplied ==
    {ch \in Range(channels) :
        /\ options.permissions
        /\ \/ \E i \in ChannelAttempts(ch) : calls[i].ok
           \/ \E k \in 1..Len(log) :
                 log[k].kind \in {"skip_channel", "skip_category"} /\ log[k].name = ch.name}

\* The member-targeted overwrites of a channel.
MemberOverwrites(ch) ==
    {k \in 1..Len(ch.permission_overwrites) : ch.permission_overwrites[k].type # 0}

\* C29 as stated: for every member-targeted overwrite of a channel whose
\* permissions were applied, one unsupported-feature notice is recorded.
C29_MemberOverwriteNotice ==
    gi > 0 =>
      \A ch \in PermissionsApplied :
        Cardinality({i \in 1..Len(log) :
                        log[i].kind = "unsupported_overwrite" /\ log[i].name = ch.name})
          = Cardinality(MemberOverwrites(ch))

\* What does hold of member-targeted overwrites: no edit call is made for one.
C29_MemberOverwriteNotApplied ==
    \A i \in CallsOf("edit_permissions") :
        calls[i].ow \notin MemberOverwrites(SourceChannel(calls[i].src))

\* The role overwrites of a channel that the role map resolves.
ResolvableOverwrites(ch) ==
    {k \in 1..Len(ch.permission_overwrites) :
        /\ ch.permission_overwrites[k].type = 0
        /\ ch.permission_overwrites[k].id \in DOMAIN role_id_map
        /\ role_id_map[ch.permission_overwrites[k].id] # None}

\* The edit-permission calls made for a source channel.
EditsOf(ch) == {i \in CallsOf("edit_permissions") : calls[i].src = ch.id}

\* The leaf channels the second pass has counted: created or matched by name.
CountedLeaves ==
    {ch \in Range(channels) :
        /\ ch.type \in {0, 2, 5, 15}
        /\ \/ \E i \in ChannelAttempts(ch) : calls[i].ok
           \/ \E k \in 1..Len(log) : log[k].kind = "skip_channel" /\ log[k].name = ch.name}

\* C30: a channel whose permissions were applied has had one edit call for
\* each of its resolvable role overwrites, in overwrite order, whichever of
\* them failed; it has its map entry; by the end of the stage every created
\* or matched leaf channel is counted and every unmatched leaf channel has
\* had its create call.
C30_OverwriteFailureIsolation ==
    /\ gi > 0
         => \A ch \in PermissionsApplied :
              /\ {calls[i].ow : i \in EditsOf(ch)} = ResolvableOverwrites(ch)
              /\ Cardinality(EditsOf(ch)) = Cardinality(ResolvableOverwrites(ch))
              /\ \A i, j \in EditsOf(ch) : i < j => calls[i].ow < calls[j].ow
              /\ ch.id \in DOMAIN (IF ch.type = 4 THEN category_id_map ELSE channel_id_map)
    /\ (gi > 0 /\ LogHas("migrated_channels"))
         => /\ \A k \in 1..Len(log) :
                 log[k].kind = "migrated_channels" => log[k].n = Cardinality(CountedLeaves)
            /\ \A ch \in CreatableLeaves : ChannelAttempts(ch) # {}

\* The first edit call of a created channel failed, the one for its later
\* role overwrite went through, the next channel was created, and the stage
\* ended with both counted.
C30_Witness ==
    /\ LogHas("migrated_channels") /\ channel_count = 2
    /\ \E i, j \in CallsOf("edit_permissions") :
         /\ i < j /\ calls[i].src = 22 /\ calls[j].src = 22
         /\ ~calls[i].ok /\ calls[j].ok
    /\ 22 \in DOMAIN channel_id_map
    /\ \E c \in CallsOf("create_channel") : calls[c].ok /\ calls[c].src = 23

\* The id of the last item of that name in a destination list.
LastIdNamed(items, n) ==
    LET hits == {k \in 1..Len(items) : items[k].name = n}
    IN  items[CHOOSE k \in hits : \A m \in hits : m <= k].id

\* C31: an edit-permission call for a name-matched category or leaf channel
\* targets the existing destination channel of that name and no create call
\* is made for it; an edit-permission call for any other channel targets the
\* id returned by an earlier, successful create call for that channel; and a
\* channel whose create call failed gets no edit-permission call.
C31_EditTargets ==
    /\ \A i \in CallsOf("edit_permissions") :
         LET ch == SourceChannel(calls[i].src)
         IN  IF HasName(existing_channels_by_name, ch.name)
             THEN /\ ChannelAttempts(ch) = {}
                  /\ calls[i].id = LastIdNamed(existing_channels_by_name, ch.name)
             ELSE \E j \in ChannelAttempts(ch) :
                      j < i /\ calls[j].ok /\ calls[i].id = calls[j].id
    /\ \A j \in CallsOf("create_channel") :
         ~calls[j].ok => EditsOf(SourceChannel(calls[j].src)) = {}

\* A category with a role overwrite failed to be created and got no edit
\* call, while a channel created after it had its overwrites applied to the
\* id its create call returned.
C31_Witness ==
    /\ \E j \in CallsOf("create_channel") :
         /\ ~calls[j].ok /\ calls[j].site = 366
         /\ SourceChannel(calls[j].src).permission_overwrites # <<>>
    /\ \E j \in CallsOf("create_channel"), i \in CallsOf("edit_permissions") :
         /\ j < i /\ calls[j].ok /\ calls[j].site = 422
         /\ calls[i].src = calls[j].src /\ calls[i].id = calls[j].id

\* Overwrites applied to an existing destination category and to an
\* existing destination channel matched by name in a partial sync.
C31_WitnessMatched ==
    /\ PartialSyncList("channels")
    /\ \E i, k \in CallsOf("edit_permissions") :
         /\ SourceChannel(calls[i].src).type = 4
         /\ SourceChannel(calls[k].src).type = 0
         /\ calls[i].id \in {c.id : c \in Range(InitialFluxerChannels)}
         /\ calls[k].id \in {c.id : c \in Range(InitialFluxerChannels)}

\* The emoji image downloads among the calls.
EmojiDownloads == {i \in CallsOf("download") : calls[i].site = 585}

\* The download calls made for a source emoji.
Downloads(e) == {i \in EmojiDownloads : calls[i].src = e.id}

\* The source emojis with no emoji of their name in the destination list.
UnmatchedEmojis == {e \in Range(emojis) : ~HasName(existing_emojis_by_name, e.name)}

\* C32: an emoji is downloaded at most once, in list order; a failed download
\* is followed by no create-emoji call and no delay for that emoji, a failed
\* upload by no delay, and both by the next emoji's download if there is one;
\* when the count is reported, which happens once, every emoji that is not
\* name-matched has had its one download, and the count is that of the
\* matched emojis and the successful uploads.
C32_EmojiFailureIsolation ==
    /\ \A i, j \in EmojiDownloads : i < j => calls[i].src # calls[j].src
    /\ \A i \in EmojiDownloads :
         ~calls[i].ok
           => /\ \A j \in CallsOf("create_emoji") : calls[j].src # calls[i].src
              /\ i < Len(calls) => (i + 1) \in EmojiDownloads
    /\ \A i \in CallsOf("create_emoji") :
         /\ (i - 1) \in EmojiDownloads /\ calls[i - 1].ok
         /\ calls[i - 1].src = calls[i].src
         /\ (~calls[i].ok /\ i < Len(calls)) => (i + 1) \in EmojiDownloads
    /\ (gi > 0 /\ LogHas("migrated_emojis"))
         => /\ \A e \in UnmatchedEmojis : Cardinality(Downloads(e)) = 1
            /\ \A k \in 1..Len(log) :
                 log[k].kind = "migrated_emojis"
                   => /\ \A m \in 1..Len(log) : log[m].kind = "migrated_emojis" => m = k
                      /\ log[k].n = Cardinality(Range(emojis) \ UnmatchedEmojis)
                                   + Cardinality({i \in CallsOf("create_emoji") : calls[i].ok})

\* The first emoji's download failed, the second emoji's upload failed, and
\* the count was reported as zero.
C32_Witness ==
    /\ Len(emojis) = 2
    /\ \E i \in EmojiDownloads : ~calls[i].ok /\ calls[i].src = emojis[1].id
    /\ \E i \in CallsOf("create_emoji") : ~calls[i].ok /\ calls[i].src = emojis[2].id
    /\ LogHas("migrated_emojis") /\ emoji_count = 0

\* The first emoji's upload failed and the second emoji was created.
C32_WitnessUpload ==
    /\ Len(emojis) = 2
    /\ \E i \in CallsOf("create_emoji") : ~calls[i].ok /\ calls[i].src = emojis[1].id
    /\ \E i \in CallsOf("create_emoji") : calls[i].ok /\ calls[i].src = emojis[2].id
    /\ LogHas("migrated_emojis") /\ emoji_count = 1

\* The create calls made at the forum conversion.
ForumCreates == {i \in CallsOf("create_channel") : calls[i].site = 506}

\* C33 as stated: the topic sent for a converted forum channel is the marker
\* followed by the source topic, and the marker alone when the source
\* channel's topic is absent or null.
C33_ForumTopic ==
    \A i \in ForumCreates :
        LET ch == SourceChannel(calls[i].src)
        IN  calls[i].topic =
              (IF ch.topic \in {Missing, Null} THEN <<"Converted from forum.">>
               ELSE <<"Converted from forum. ", ch.topic>>)

\* What does hold: for a source topic that is a text the topic sent is the
\* marker followed by that text.
C33_ForumTopicOfText ==
    \A i \in ForumCreates :
        LET ch == SourceChannel(calls[i].src)
        IN  ch.topic \notin {Missing, Null}
              => calls[i].topic = <<"Converted from forum. ", ch.topic>>

\* A forum channel holding a topic was converted.
C33_WitnessText ==
    \E i \in ForumCreates : calls[i].ok /\ SourceChannel(calls[i].src).topic = "ask"

\* C34: when the destination role list fetched by the role stage itself
\* fails, that fetch is the last call of the run, migrate_server has returned
\* false, no role was created or repositioned, and the channel and emoji
\* stages have not run.
C34_RoleFetchFailureAborts ==
    FailedAt({197}) # {}
        => /\ Returned /\ result = "false"
           /\ \A i \in FailedAt({197}) : i = Len(calls)
           /\ \A i \in 1..Len(calls) : StageOfCall(calls[i]) = 0 /\ calls[i].site # 585
           /\ ~LogHas("migrated_roles") /\ ~LogHas("migrated_channels")
           /\ ~LogHas("migrated_emojis") /\ ~LogHas("no_emojis")

\* The role stage's own fetch failed in a run with the channels and the
\* emojis enabled and a source emoji list that is not empty.
C34_Witness ==
    /\ FailedAt({197}) # {}
    /\ options.channels /\ options.emojis
    /\ emojis # <<>> /\ channels # <<>>
    /\ pc = "idle"

\* The calls of the role, channel and emoji stages.
StageCalls == {i \in 1..Len(calls) : StageOfCall(calls[i]) # 0 \/ calls[i].site = 585}

\* The source list a stage call works from.
ListOfCall(c) ==
    IF StageOfCall(c) = 1 THEN "roles"
    ELSE IF StageOfCall(c) = 2 THEN "channels"
    ELSE "emojis"

\* C35: every source list fetch of a run precedes every call of the role,
\* channel and emoji stages and has succeeded by then, the fetch of the list
\* the stage works from among them; after a failed source fetch migrate_server
\* has returned false with no stage call issued, and a destination guild
\* created earlier in the run is still there.
C35_SourceFetchesFirst ==
    /\ LET fetches == CallsOf("discord_get")
           fetched == {calls[j].name : j \in fetches}
       IN  \A i \in StageCalls :
             /\ \A j \in fetches : j < i /\ calls[j].ok
             /\ ListOfCall(calls[i]) \in fetched
    /\ FailedAt({122, 125, 128}) # {}
         => /\ Returned /\ result = "false"
            /\ StageCalls = {}
            /\ \A i \in FailedAt({122, 125, 128}) : i = Len(calls)
            /\ \A i \in CallsOf("create_guild") : calls[i].ok => calls[i].id \in fx_guilds

\* The emoji list fetch failed after the role and channel lists were fetched,
\* in a run that had created its destination guild.
C35_Witness ==
    /\ FailedAt({128}) # {}
    /\ Cardinality(CallsOf("discord_get")) = 3
    /\ \E i \in CallsOf("create_guild") : calls[i].ok /\ calls[i].id \in fx_guilds
    /\ pc = "idle"

\* A run that fetched its three source lists and went through its stages.
C35_WitnessStages ==
    /\ Cardinality({i \in CallsOf("discord_get") : calls[i].ok}) = 3
    /\ \E i \in StageCalls : StageOfCall(calls[i]) = 1
    /\ \E i \in StageCalls : StageOfCall(calls[i]) = 2
    /\ \E i \in StageCalls : StageOfCall(calls[i]) = 3

\* The destination channel with the given id.
FluxerChannel(id) == CHOOSE c \in Range(fx_channels) : c.id = id

\* C36 as stated: in a partial sync every entry of the category map refers
\* to a destination category, and so does the parent a leaf channel is
\* created under.
C36_CategoryMapsToCategory ==
    PartialSyncList("channels")
        => /\ \A k \in DOMAIN category_id_map : FluxerChannel(category_id_map[k]).type = 4
           /\ \A i \in LeafCreates :
                calls[i].parent_id # None => FluxerChannel(calls[i].parent_id).type = 4

\* What does hold: a category map entry that refers to a destination channel
\* of another type refers to one that was there before the batch, matched by
\* its name alone.
C36_OnlyMatchedMayDiffer ==
    \A k \in DOMAIN category_id_map :
        FluxerChannel(category_id_map[k]).type # 4
          => \E c \in Range(InitialFluxerChannels) :
                c.id = category_id_map[k] /\ c.name = SourceChannel(k).name

\* A leaf channel was created under a destination text channel.
C36_WitnessTextParent ==
    \E i \in LeafCreates :
        /\ calls[i].ok /\ calls[i].parent_id # None
        /\ FluxerChannel(calls[i].parent_id).type = 0

\* The control points of migrate_server in the order the code reaches them.
ControlPoints ==
    <<"resolve", "prefetch", "fetch", "roles", "role_loop", "channels", "category_loop",
      "channel_loop", "emojis", "emoji_loop", "success", "idle">>

PcRank(p) == CHOOSE i \in 1..Len(ControlPoints) : ControlPoints[i] = p

CreationOps == {"create_guild", "create_role", "create_channel", "create_emoji"}

\* No source item has two creation calls of one kind in a run.
C37_AtMostOnce ==
    \A i, j \in 1..Len(calls) :
        (i < j /\ calls[i].op \in CreationOps /\ calls[i].op = calls[j].op)
          => calls[i].src # calls[j].src

\* Inside a run control only moves forward, and a loop that stays where it
\* is has moved on to its next item.
C37_NoWayBack ==
    pc \notin {"idle", "exit"}
      => /\ PcRank(pc') >= PcRank(pc)
         /\ pc' = pc => idx' = idx + 1

\* C37: every started migrate_server run ends with a boolean result; on the
\* way control never goes back, every loop step moves to the next item, and
\* no source item gets a second creation call.
C37_Terminates ==
    /\ []C37_AtMostOnce
    /\ [][C37_NoWayBack]_vars
    /\ (pc = "resolve") ~> (Returned /\ result \in {"true", "false"})

\* A batch has ended after a run in which a role, a channel and an emoji
\* stage ran and two of their calls failed.
C37_Witness ==
    /\ pc = "exit" /\ result = "true"
    /\ Cardinality(PerItemFailures) = 2
    /\ LogHas("migrated_roles") /\ LogHas("migrated_channels") /\ LogHas("migrated_emojis")

\* The keys a step writes in a table: new ones and ones given another value.
Written(m, n) == {k \in DOMAIN n : k \notin DOMAIN m \/ m[k] # n[k]}

\* A step keeps every key of every table.
C38_NothingRemoved ==
    /\ DOMAIN guild_id_map \subseteq DOMAIN guild_id_map'
    /\ DOMAIN role_id_map \subseteq DOMAIN role_id_map'
    /\ DOMAIN category_id_map \subseteq DOMAIN category_id_map'
    /\ DOMAIN channel_id_map \subseteq DOMAIN channel_id_map'

\* A step writes the category table only for a source channel of type 4 and
\* the channel table only for one of type 0, 2, 5 or 15 that is matched by
\* name or has just had a successful create call returning the id written.
C38_WritesByKind ==
    /\ \A k \in Written(category_id_map, category_id_map') :
         \E ch \in Range(channels) : ch.id = k /\ ch.type = 4
    /\ \A k \in Written(channel_id_map, channel_id_map') :
         \E ch \in Range(channels) :
            /\ ch.id = k /\ ch.type \in {0, 2, 5, 15}
            /\ \/ /\ HasName(existing_channels_by_name, ch.name)
                  /\ channel_id_map'[k] \in IdsNamed(existing_channels_by_name, ch.name)
               \/ \E i \in 1..Len(calls') :
                     /\ calls'[i].op = "create_channel" /\ calls'[i].ok
                     /\ calls'[i].src = k /\ calls'[i].id = channel_id_map'[k]

\* C38: no source item is a key of both the category table and the channel
\* table; the category table is written only for source categories, the
\* channel table only for matched or created channels of type 0, 2, 5 or 15;
\* and no step removes a key from any of the four tables.
C38_TableKeyKinds ==
    /\ [](DOMAIN category_id_map \cap DOMAIN channel_id_map = {})
    /\ [][C38_NothingRemoved /\ C38_WritesByKind]_vars

\* A partial sync matched a category and a text channel by name and failed
\* to create the voice channel, which has no entry.
C38_Witness ==
    /\ PartialSyncList("channels")
    /\ LogHas("migrated_channels")
    /\ DOMAIN category_id_map = {21}
    /\ DOMAIN channel_id_map = {22}
    /\ \E i \in CallsOf("create_channel") : ~calls[i].ok /\ calls[i].src = 23

\* Entries written for a created announcement channel and a converted forum
\* channel next to those of two created categories.
C38_WitnessCreated ==
    /\ {24, 25} \subseteq DOMAIN category_id_map
    /\ {26, 28} \subseteq DOMAIN channel_id_map
    /\ \E i \in CallsOf("create_channel") : calls[i].ok /\ calls[i].src = 28

====
